---- MODULE Spec2Model ----
(***************************************************************************)
(* The workshop automation of daemon-labs-io/github-actions-aws-lambda:    *)
(* the facilitator's setup and cleanup scripts (bash, `set -e`, AWS CLI),  *)
(* the deploy-lambda.yaml workflow of the README and the Lambda handler,   *)
(* run against one AWS account.  The account (IAM, Lambda, CloudWatch      *)
(* Logs) is the shared state; every script line that calls the AWS CLI is  *)
(* one step.                                                               *)
(***************************************************************************)
EXTENDS Integers, Sequences, FiniteSets, TLC

VARIABLES
    aws,        \* the AWS account: OIDC provider, roles, policies, functions, log groups
    script,     \* the facilitator's running script: "none", "setup", "cleanup" (the one
                \* in _facilitator/) or "cleanup-opts" (the one with options)
    pc,         \* the line the running script is at; "exit" when no script is running
    status,     \* exit status of the script once pc = "exit" (0: success)
    sh,         \* the script's shell variables (ACCOUNT_ID, FUNCTIONS, ROLES, ...), its
                \* remaining arguments and what it inherited from the environment
    files,      \* the policy documents in the working directory (cat > x.json)
    out,        \* what the running script has printed (the lines that matter)
    cmds,       \* the commands the running script has issued, with their exit codes
    prev,       \* the account as the previous script run left it, and how that run ended
    runs,       \* number of script runs started
    secrets,    \* the repository secrets AWS_ROLE_ARN and LAMBDA_EXECUTION_ROLE_ARN
    wf,         \* the workflow runs since the last script started, in the order triggered
    pushes,     \* number of pushes to the repository so far
    lam         \* an invocation of the Lambda handler: its event, context and result

vars == <<aws, script, pc, status, sh, files, out, cmds, prev, runs, secrets, wf, pushes,
          lam>>

\* The facilitator's shell, and the repository's side.
shvars == <<script, pc, status, sh, files, out, cmds, prev, runs>>
ghvars == <<secrets, wf, pushes>>

(***************************************************************************)
(* Bounds of the model.                                                    *)
(***************************************************************************)
MaxRuns == 3
MaxPushes == 2
MaxArgs == 2

(***************************************************************************)
(* Names the scripts fix.                                                  *)
(***************************************************************************)
WORKSHOP_ROLE_NAME == "GitHubActions-Lambda-Workshop"
LAMBDA_EXECUTION_ROLE_NAME == "Lambda-Execution-Role-Workshop"
WorkshopPolicyName == "LambdaWorkshopPermissions"
ExecutionPolicyName == "LambdaWorkshopExecutionPermissions"
OidcHost == "token.actions.githubusercontent.com"
RepoSubject == "repo:daemon-labs-io/github-actions-aws-lambda:*"
WorkshopTag == [Key |-> "Workshop", Value |-> "GitHubActions"]

\* The account the facilitator's credentials belong to.
Account == "111122223333"

OidcArn(acct) == "arn:aws:iam::" \o acct \o ":oidc-provider/" \o OidcHost
RoleArn(acct, name) == "arn:aws:iam::" \o acct \o ":role/" \o name

(***************************************************************************)
(* Policy documents: a set of statements.                                  *)
(***************************************************************************)
Stmt(principal, actions, resource, cond) ==
    [principal |-> principal, actions |-> actions, resource |-> resource, cond |-> cond]

TrustPolicyDocAnyRepository(acct) ==
    { Stmt(OidcArn(acct), {"sts:AssumeRoleWithWebIdentity"}, "", "repo:*") }
TrustPolicyDoc(acct) ==
    { Stmt(OidcArn(acct), {"sts:AssumeRoleWithWebIdentity"}, "", RepoSubject) }

WorkshopPermissionsDoc ==
    { Stmt("", {"lambda:CreateFunction", "lambda:UpdateFunctionCode", "lambda:GetFunction",
                "lambda:GetFunctionUrlConfig", "lambda:CreateFunctionUrlConfig",
                "lambda:DeleteFunctionUrlConfig", "lambda:AddPermission",
                "lambda:RemovePermission", "lambda:TagResource", "lambda:UntagResource",
                "logs:CreateLogGroup", "logs:CreateLogStream", "logs:PutLogEvents",
                "iam:PassRole", "iam:CreateRole", "iam:GetRole", "iam:DeleteRole",
                "iam:AttachRolePolicy", "iam:DetachRolePolicy", "iam:CreatePolicy",
                "iam:DeletePolicy"}, "*", "") }

LambdaTrustPolicyDoc ==
    { Stmt("lambda.amazonaws.com", {"sts:AssumeRole"}, "", "") }

LambdaExecutionPermissionsDoc ==
    { Stmt("", {"logs:CreateLogGroup", "logs:CreateLogStream", "logs:PutLogEvents"},
           "arn:aws:logs:*:*:*", ""),
      Stmt("", {"s3:ListBuckets"}, "*", "") }

\* A document this repository never writes (what an account may hold beforehand).
ForeignDoc == { Stmt("", {"s3:GetObject"}, "*", "") }
ForeignTrustDoc == { Stmt("ec2.amazonaws.com", {"sts:AssumeRole"}, "", "") }

(***************************************************************************)
(* Small helpers on functions used as maps.                                *)
(***************************************************************************)
Put(f, k, v) == [x \in DOMAIN f \cup {k} |-> IF x = k THEN v ELSE f[x]]
Drop(f, k) == [x \in DOMAIN f \ {k} |-> f[x]]
EmptyMap == [x \in {} |-> {}]

\* JMESPath contains(string, string): substring search.
Contains(h, n) ==
    \E i \in 1..(Len(h) + 1 - Len(n)) : SubSeq(h, i, i + Len(n) - 1) = n

\* Every order in which a list command may return a set of names.
Orders(S) ==
    { s \in [1..Cardinality(S) -> S] : \A i, j \in 1..Cardinality(S) : i # j => s[i] # s[j] }

(***************************************************************************)
(* The AWS account.  It holds the attributes the repository's commands set *)
(* or query:                                                               *)
(*   oidc      provider ARN -> client id list                              *)
(*   roles     role name -> [arn, trust, desc, tags, maxdur, inline,       *)
(*             attached]; inline maps policy name -> document, attached is *)
(*             the set of managed policy ARNs                              *)
(*   policies  customer-managed policy ARN -> policy name                  *)
(*   functions function name -> [tags, url, perms, code, actor]            *)
(*   logGroups set of log group names                                      *)
(***************************************************************************)
Role(arn, trust, desc, tags, maxdur, inline, attached) ==
    [arn |-> arn, trust |-> trust, desc |-> desc, tags |-> tags, maxdur |-> maxdur,
     inline |-> inline, attached |-> attached]

\* aws iam get-open-id-connect-provider --open-id-connect-provider-arn ARN
HasOidc(a, arn) == arn \in DOMAIN a.oidc

\* aws iam create-open-id-connect-provider --url .. --client-id-list sts.amazonaws.com
CanCreateOidc(a) == OidcArn(a.account) \notin DOMAIN a.oidc
CreateOidc(a) ==
    [a EXCEPT !.oidc = Put(a.oidc, OidcArn(a.account), {"sts.amazonaws.com"})]

\* aws iam get-role --role-name NAME
HasRole(a, name) == name \in DOMAIN a.roles

\* aws iam create-role --role-name NAME --assume-role-policy-document file://..
CanCreateRole(a, name) == name \notin DOMAIN a.roles
CreateRole(a, name, trust, desc, maxdur) ==
    [a EXCEPT !.roles = Put(a.roles, name,
        Role(RoleArn(a.account, name), trust, desc, {WorkshopTag}, maxdur, EmptyMap, {}))]

\* aws iam put-role-policy --role-name NAME --policy-name P --policy-document file://..
\* adds the inline policy or replaces its document; nothing else of the role changes.
CanPutRolePolicy(a, name) == name \in DOMAIN a.roles
PutRolePolicy(a, name, pname, doc) ==
    [a EXCEPT !.roles[name].inline = Put(a.roles[name].inline, pname, doc)]

\* aws iam list-attached-role-policies / detach-role-policy
CanDetachRolePolicy(a, name, arn) == name \in DOMAIN a.roles /\ arn \in a.roles[name].attached
DetachRolePolicy(a, name, arn) ==
    [a EXCEPT !.roles[name].attached = a.roles[name].attached \ {arn}]

\* aws iam list-role-policies / delete-role-policy
CanDeleteRolePolicy(a, name, pname) ==
    name \in DOMAIN a.roles /\ pname \in DOMAIN a.roles[name].inline
DeleteRolePolicy(a, name, pname) ==
    [a EXCEPT !.roles[name].inline = Drop(a.roles[name].inline, pname)]

\* aws iam delete-role: IAM refuses while the role has inline or attached policies.
CanDeleteRole(a, name) ==
    /\ name \in DOMAIN a.roles
    /\ a.roles[name].attached = {}
    /\ DOMAIN a.roles[name].inline = {}
DeleteRole(a, name) == [a EXCEPT !.roles = Drop(a.roles, name)]

\* aws iam list-entities-for-policy --query 'PolicyRoles[].RoleName'
PolicyRoles(a, arn) == { n \in DOMAIN a.roles : arn \in a.roles[n].attached }

\* aws iam delete-policy: IAM refuses while the policy is attached.
CanDeletePolicy(a, arn) == arn \in DOMAIN a.policies /\ PolicyRoles(a, arn) = {}
DeletePolicy(a, arn) == [a EXCEPT !.policies = Drop(a.policies, arn)]

\* aws lambda get-function / get-function-url-config
HasFunction(a, fn) == fn \in DOMAIN a.functions
HasUrlConfig(a, fn) == fn \in DOMAIN a.functions /\ a.functions[fn].url

\* aws lambda delete-function-url-config
CanDeleteUrlConfig(a, fn) == HasUrlConfig(a, fn)
DeleteUrlConfig(a, fn) == [a EXCEPT !.functions[fn].url = FALSE]

\* aws lambda delete-function: the function goes, and its URL configuration and
\* resource policy with it.
CanDeleteFunction(a, fn) == fn \in DOMAIN a.functions
DeleteFunction(a, fn) == [a EXCEPT !.functions = Drop(a.functions, fn)]

\* aws logs delete-log-group
CanDeleteLogGroup(a, lg) == lg \in a.logGroups
DeleteLogGroupKeeps(a, lg) == a
DeleteLogGroup(a, lg) == [a EXCEPT !.logGroups = a.logGroups \ {lg}]

\* An account that holds nothing yet.
EmptyAccount ==
    [account |-> Account, oidc |-> EmptyMap, roles |-> EmptyMap, policies |-> EmptyMap,
     functions |-> EmptyMap, logGroups |-> {}]

\* Before the first script run there is no previous run.
NoPrev == [script |-> "none", status |-> 0, aws |-> EmptyAccount]

\* The IAM part of the account (what the setup script provisions).
Iam(a) == [oidc |-> a.oidc, roles |-> a.roles, policies |-> a.policies]

(***************************************************************************)
(* The shell.  A script run is a sequence of steps; a step is one command  *)
(* together with the assignments and echo lines that precede it.  Every    *)
(* command may fail (credentials, network, throttling, a refusal by AWS);  *)
(* it can succeed only when AWS accepts it in the account's state.         *)
(***************************************************************************)
InitSh ==
    [ACCOUNT_ID |-> "", WORKSHOP_ROLE_ARN |-> "", LAMBDA_EXECUTION_ROLE_ARN |-> "",
     FUNCTIONS |-> <<>>, FUNCTION_NAME |-> "", ROLES |-> <<>>, ROLE_NAME |-> "",
     POLICIES |-> <<>>, POLICY_ARN |-> "", INLINE_POLICIES |-> <<>>, INLINE_POLICY |-> "",
     ROLE_NAMES |-> <<>>, LOG_GROUPS |-> <<>>, LOG_GROUP |-> "",
     outer |-> <<>>, inner |-> <<>>,
     args |-> <<>>, AWS_PROFILE |-> "", AWS_REGION |-> "eu-west-1",
     exported |-> FALSE, configured |-> "eu-west-1", envProfile |-> ""]

\* The scripts that parse options and call the CLI through aws_cmd; the cleanup script
\* in _facilitator/ takes no options and calls aws directly.
WithOptions == {"setup", "cleanup-opts"}
CleanupScripts == {"cleanup", "cleanup-opts"}
IsCleanup == script \in CleanupScripts

\* Word splitting of an unquoted expansion: the words between the blanks.
RECURSIVE Split(_, _)
Split(s, word) ==
    IF s = "" THEN (IF word = "" THEN <<>> ELSE <<word>>)
    ELSE IF SubSeq(s, 1, 1) = " "
    THEN (IF word = "" THEN <<>> ELSE <<word>>) \o Split(SubSeq(s, 2, Len(s)), "")
    ELSE Split(SubSeq(s, 2, Len(s)), word \o SubSeq(s, 1, 1))

\* aws_cmd() { local cmd="aws"; if [[ -n "$AWS_PROFILE" ]]; then
\*   cmd="$cmd --profile $AWS_PROFILE"; fi; $cmd "$@"; }: the words of the command run.
aws_cmd(profile, args) ==
    LET cmd == IF profile # "" THEN "aws --profile " \o profile ELSE "aws"
    IN Split(cmd, "") \o args

\* The region the CLI works in.  No script passes --region or exports AWS_REGION: the
\* assignment reaches the CLI only when the variable came exported from the caller's
\* environment; otherwise the CLI uses what it is configured with.
EffectiveRegion(v) == IF v.exported THEN v.AWS_REGION ELSE v.configured

\* The words of a command line after `aws` / `aws_cmd`.
IsAws(op) == op \notin {"cat", "rm"}
ArgsOf(op, a, b) == SelectSeq(<<op, a, b>>, LAMBDA w : w # "")

\* The words script `name` runs for a command: through aws_cmd in the scripts with
\* options, `aws` itself in the other.
Argv(name, v, op, a, b) ==
    IF name \in WithOptions THEN aws_cmd(v.AWS_PROFILE, ArgsOf(op, a, b))
    ELSE <<"aws">> \o ArgsOf(op, a, b)

\* The profile the CLI takes its credentials from: the word after --profile; else the
\* value of AWS_PROFILE in the command's environment; else "default".  v.envProfile
\* is what the caller exported as AWS_PROFILE ("": nothing).  The scripts with options
\* assign AWS_PROFILE="" in line 9 and the option's value in the loop: an inherited
\* variable stays exported, so the assignment replaces the caller's value in the
\* environment of every command; the other script does not touch the variable.
CliProfile(name, v) ==
    LET words == Argv(name, v, "", "", "")
    IN IF Len(words) >= 3 /\ words[2] = "--profile" THEN words[3]
       ELSE IF v.envProfile = "" THEN "default"
       ELSE IF name \in WithOptions THEN v.AWS_PROFILE
       ELSE v.envProfile

\* The profile whose account the facilitator means to work on, which is the account
\* of the model: the one given with -p, else the one exported, else the default one.
\* A command run under another profile (an empty or a truncated name among them)
\* does not reach this account.
IntendedProfile(name, v) ==
    IF name \in WithOptions /\ v.AWS_PROFILE # "" THEN v.AWS_PROFILE
    ELSE IF v.envProfile = "" THEN "default"
    ELSE v.envProfile
Reaches == CliProfile(script, sh) = IntendedProfile(script, sh)

\* One issued command: what was run, on what, its exit code, and where it stands:
\* "plain", the condition of an `if` ("if"), or followed by `|| true` ("ortrue").
Cmd(op, a, b, ctx, rc) ==
    [op |-> op, a |-> a, b |-> b, ctx |-> ctx, rc |-> rc,
     argv |-> IF IsAws(op) THEN Argv(script, sh, op, a, b) ELSE <<>>,
     region |-> IF IsAws(op) THEN EffectiveRegion(sh) ELSE "",
     profile |-> IF IsAws(op) THEN CliProfile(script, sh) ELSE ""]

\* set -e: a failing command ends the script, unless it is tested by `if` or
\* is the left side of `||`.
ErrExitIgnored(ctx) == FALSE
ErrExitAlsoInIf(ctx) == ctx \in {"plain", "if"}
ErrExit(ctx) == ctx = "plain"

ExitCodes == {0, 255}

\* The step at `here`: run command (op, a, b) in context ctx.  Exit code 0 needs
\* `feasible`; then the account becomes a2, the shell sh2, lines `say` are printed and
\* the script goes on at qOk.  On a failure the script exits with the command's
\* status when set -e applies, and otherwise goes on at qFail with the shell shF.
Step(here, op, a, b, ctx, feasible, a2, sh2, shF, say, qOk, qFail) ==
    /\ pc = here
    /\ \E rc \in ExitCodes :
        /\ rc = 0 => feasible /\ Reaches
        /\ cmds' = Append(cmds, Cmd(op, a, b, ctx, rc))
        /\ IF rc = 0
           THEN /\ aws' = a2
                /\ sh' = sh2
                /\ out' = out \cup say
                /\ pc' = qOk
                /\ UNCHANGED status
           ELSE IF ErrExit(ctx)
           THEN /\ pc' = "exit"
                /\ status' = rc
                /\ UNCHANGED <<aws, sh, out>>
           ELSE /\ pc' = qFail
                /\ sh' = shF
                /\ UNCHANGED <<aws, out, status>>
    /\ UNCHANGED <<script, files, prev, runs, ghvars, lam>>

\* cat > name << EOF: writes a document into the working directory.
Cat(here, name, doc, sh2, qOk) ==
    /\ pc = here
    /\ \E rc \in {0, 1} :
        /\ cmds' = Append(cmds, Cmd("cat", name, "", "plain", rc))
        /\ IF rc = 0 \/ ~ErrExit("plain")
           THEN /\ files' = IF rc = 0 THEN Put(files, name, doc) ELSE files
                /\ pc' = qOk
                /\ sh' = sh2
                /\ UNCHANGED status
           ELSE /\ pc' = "exit"
                /\ status' = rc
                /\ UNCHANGED <<files, sh>>
    /\ UNCHANGED <<aws, script, out, prev, runs, ghvars, lam>>

\* A workflow run that has not ended.
InProgress(run) == run.pc \notin {"success", "failed", "cancelled"}

\* The facilitator starts a script when none is running, before or after the
\* workshop's workflow runs (not during one).  The runs that have ended are of no
\* further consequence and are forgotten.
StartWith(name, args, env) ==
    /\ pc = "exit"
    /\ \A i \in DOMAIN wf : ~InProgress(wf[i])
    /\ script' = name
    /\ pc' = "args"
    /\ status' = 0
    /\ sh' = [InitSh EXCEPT !.args = args, !.exported = env.exported,
                            !.configured = env.configured, !.envProfile = env.profile]
    /\ out' = {}
    /\ cmds' = <<>>
    /\ prev' = [script |-> script, status |-> status, aws |-> aws]
    /\ runs' = runs + 1
    /\ wf' = <<>>
    /\ UNCHANGED <<aws, files, secrets, pushes, lam>>

\* In the workshop's environment: no arguments, AWS_REGION and AWS_PROFILE not
\* exported, the CLI configured for the workshop's region.
Env(exported, configured) ==
    [exported |-> exported, configured |-> configured, profile |-> ""]
EnvProfile(p) == [exported |-> FALSE, configured |-> "eu-west-1", profile |-> p]
Start(name) == runs < MaxRuns /\ StartWith(name, <<>>, Env(FALSE, "eu-west-1"))

\* shift n: fails, and shifts nothing, when fewer than n arguments are left.
ShiftAlwaysZero(args, n) ==
    [rc |-> 0, args |-> IF n <= Len(args) THEN SubSeq(args, n + 1, Len(args)) ELSE args]
Shift(args, n) ==
    IF n <= Len(args) THEN [rc |-> 0, args |-> SubSeq(args, n + 1, Len(args))]
    ELSE [rc |-> 1, args |-> args]

Usage == "Usage: $0 [-p|--profile <profile>] [-r|--region <region>]"

\* while [[ $# -gt 0 ]]; do case $1 in ... esac; done: one turn of the loop, or, with
\* no argument left (and in the script without options), the step past it:
\* echo "Region: $AWS_REGION".
ParseArgs(name) ==
    /\ script = name
    /\ pc = "args"
    /\ IF name \notin WithOptions \/ sh.args = <<>>
       THEN /\ pc' = "begin"
            /\ out' = out \cup {"Region: " \o sh.AWS_REGION}
            /\ UNCHANGED <<sh, status>>
       ELSE LET arg2 == IF Len(sh.args) >= 2 THEN sh.args[2] ELSE ""
                sft == Shift(sh.args, 2)
                v == IF sh.args[1] \in {"-p", "--profile"}
                     THEN [sh EXCEPT !.AWS_PROFILE = arg2, !.args = sft.args]
                     ELSE [sh EXCEPT !.AWS_REGION = arg2, !.args = sft.args]
            IN IF sh.args[1] \in {"-p", "--profile", "-r", "--region"}
               THEN /\ sh' = v
                    /\ IF sft.rc # 0 /\ ErrExit("plain")
                       THEN pc' = "exit" /\ status' = sft.rc
                       ELSE UNCHANGED <<pc, status>>
                    /\ UNCHANGED out
               ELSE /\ out' = out \cup {Usage}
                    /\ pc' = "exit"
                    /\ status' = 1
                    /\ UNCHANGED sh
    /\ UNCHANGED <<aws, script, files, cmds, prev, runs, ghvars, lam>>

\* `if ! command -v aws`: without the AWS CLI the script prints an error and exits 1.
Begin(name) ==
    /\ script = name
    /\ pc = "begin"
    /\ \E installed \in BOOLEAN :
        IF installed
        THEN /\ pc' = "creds"
             /\ UNCHANGED <<status, out>>
        ELSE /\ pc' = "exit"
             /\ status' = 1
             /\ out' = out \cup {"AWS CLI is not installed"}
    /\ UNCHANGED <<aws, script, sh, files, cmds, prev, runs, ghvars, lam>>

(***************************************************************************)
(* setup-aws.sh                                                            *)
(***************************************************************************)
StartSetup == Start("setup")
BeginSetup == Begin("setup")
SetupArgs == ParseArgs("setup")

\* aws_cmd sts get-caller-identity
SetupCreds ==
    /\ script = "setup"
    /\ Step("creds", "sts get-caller-identity", "", "", "plain", TRUE,
            aws, sh, sh, {}, "account", "account")

\* ACCOUNT_ID=$(aws_cmd sts get-caller-identity --query Account --output text)
SetupAccount ==
    /\ script = "setup"
    /\ Step("account", "sts get-caller-identity", "Account", "", "plain", TRUE,
            aws, [sh EXCEPT !.ACCOUNT_ID = aws.account], sh, {},
            "oidc_check", "oidc_check")

\* if ! aws_cmd iam get-open-id-connect-provider ...; then create; else "already exists"
SetupOidcCheck ==
    /\ script = "setup"
    /\ Step("oidc_check", "iam get-open-id-connect-provider", OidcArn(sh.ACCOUNT_ID), "",
            "if", HasOidc(aws, OidcArn(sh.ACCOUNT_ID)),
            aws, sh, sh, {}, "cat_trust", "oidc_create")

SetupOidcCreate ==
    /\ script = "setup"
    /\ Step("oidc_create", "iam create-open-id-connect-provider", OidcHost, "", "plain",
            CanCreateOidc(aws), CreateOidc(aws), sh, sh, {}, "cat_trust", "cat_trust")

SetupCatTrust ==
    /\ script = "setup"
    /\ Cat("cat_trust", "trust-policy.json", TrustPolicyDoc(sh.ACCOUNT_ID), sh, "cat_perms")

SetupCatPerms ==
    /\ script = "setup"
    /\ Cat("cat_perms", "workshop-permissions.json", WorkshopPermissionsDoc, sh, "gh_check")

\* The document `file://name` names; a missing file makes the command fail.
HasFile(name) == name \in DOMAIN files
File(name) == IF HasFile(name) THEN files[name] ELSE {}

\* if ! aws_cmd iam get-role --role-name $WORKSHOP_ROLE_NAME; then create; else update
SetupRoleCheck ==
    /\ script = "setup"
    /\ Step("gh_check", "iam get-role", WORKSHOP_ROLE_NAME, "", "if",
            HasRole(aws, WORKSHOP_ROLE_NAME), aws, sh, sh, {}, "gh_put", "gh_create")

SetupRoleCreate ==
    /\ script = "setup"
    /\ Step("gh_create", "iam create-role", WORKSHOP_ROLE_NAME, "", "plain",
            CanCreateRole(aws, WORKSHOP_ROLE_NAME) /\ HasFile("trust-policy.json"),
            CreateRole(aws, WORKSHOP_ROLE_NAME, File("trust-policy.json"),
                       "GitHub Actions role for Lambda workshop", 3600),
            sh, sh, {}, "gh_put_new", "gh_put_new")

SetupRolePutNew ==
    /\ script = "setup"
    /\ Step("gh_put_new", "iam put-role-policy", WORKSHOP_ROLE_NAME, WorkshopPolicyName,
            "plain",
            CanPutRolePolicy(aws, WORKSHOP_ROLE_NAME) /\ HasFile("workshop-permissions.json"),
            PutRolePolicy(aws, WORKSHOP_ROLE_NAME, WorkshopPolicyName,
                          File("workshop-permissions.json")),
            sh, sh, {}, "cat_ltrust", "cat_ltrust")

SetupRolePutOtherName ==
    /\ script = "setup"
    /\ Step("gh_put", "iam put-role-policy", WORKSHOP_ROLE_NAME, "WorkshopPermissions",
            "plain",
            CanPutRolePolicy(aws, WORKSHOP_ROLE_NAME) /\ HasFile("workshop-permissions.json"),
            PutRolePolicy(aws, WORKSHOP_ROLE_NAME, "WorkshopPermissions",
                          File("workshop-permissions.json")),
            sh, sh, {}, "cat_ltrust", "cat_ltrust")

SetupRolePut ==
    /\ script = "setup"
    /\ Step("gh_put", "iam put-role-policy", WORKSHOP_ROLE_NAME, WorkshopPolicyName,
            "plain",
            CanPutRolePolicy(aws, WORKSHOP_ROLE_NAME) /\ HasFile("workshop-permissions.json"),
            PutRolePolicy(aws, WORKSHOP_ROLE_NAME, WorkshopPolicyName,
                          File("workshop-permissions.json")),
            sh, sh, {}, "cat_ltrust", "cat_ltrust")

\* WORKSHOP_ROLE_ARN="arn:aws:iam::${ACCOUNT_ID}:role/${WORKSHOP_ROLE_NAME}"
WorkshopRoleArnOf(acct) == "arn:aws:iam::" \o acct \o ":role/" \o WORKSHOP_ROLE_NAME

SetupCatLambdaTrust ==
    /\ script = "setup"
    /\ Cat("cat_ltrust", "lambda-trust-policy.json", LambdaTrustPolicyDoc,
           [sh EXCEPT !.WORKSHOP_ROLE_ARN = WorkshopRoleArnOf(sh.ACCOUNT_ID)], "cat_lperms")

SetupCatLambdaPerms ==
    /\ script = "setup"
    /\ Cat("cat_lperms", "lambda-execution-permissions.json", LambdaExecutionPermissionsDoc,
           sh, "ex_check")

SetupExecCheck ==
    /\ script = "setup"
    /\ Step("ex_check", "iam get-role", LAMBDA_EXECUTION_ROLE_NAME, "", "if",
            HasRole(aws, LAMBDA_EXECUTION_ROLE_NAME), aws, sh, sh, {}, "ex_put", "ex_create")

SetupExecCreate ==
    /\ script = "setup"
    /\ Step("ex_create", "iam create-role", LAMBDA_EXECUTION_ROLE_NAME, "", "plain",
            CanCreateRole(aws, LAMBDA_EXECUTION_ROLE_NAME) /\ HasFile("lambda-trust-policy.json"),
            CreateRole(aws, LAMBDA_EXECUTION_ROLE_NAME, File("lambda-trust-policy.json"),
                       "Lambda execution role for workshop", 3600),
            sh, sh, {}, "ex_put_new", "ex_put_new")

SetupExecPutNew ==
    /\ script = "setup"
    /\ Step("ex_put_new", "iam put-role-policy", LAMBDA_EXECUTION_ROLE_NAME,
            ExecutionPolicyName, "plain",
            /\ CanPutRolePolicy(aws, LAMBDA_EXECUTION_ROLE_NAME)
            /\ HasFile("lambda-execution-permissions.json"),
            PutRolePolicy(aws, LAMBDA_EXECUTION_ROLE_NAME, ExecutionPolicyName,
                          File("lambda-execution-permissions.json")),
            sh, sh, {}, "rm", "rm")

SetupExecPutAndTrust ==
    /\ script = "setup"
    /\ Step("ex_put", "iam put-role-policy", LAMBDA_EXECUTION_ROLE_NAME,
            ExecutionPolicyName, "plain",
            /\ CanPutRolePolicy(aws, LAMBDA_EXECUTION_ROLE_NAME)
            /\ HasFile("lambda-execution-permissions.json"),
            [PutRolePolicy(aws, LAMBDA_EXECUTION_ROLE_NAME, ExecutionPolicyName,
                           File("lambda-execution-permissions.json"))
                EXCEPT !.roles[LAMBDA_EXECUTION_ROLE_NAME].trust = File("lambda-trust-policy.json")],
            sh, sh, {}, "rm", "rm")

SetupExecPut ==
    /\ script = "setup"
    /\ Step("ex_put", "iam put-role-policy", LAMBDA_EXECUTION_ROLE_NAME,
            ExecutionPolicyName, "plain",
            /\ CanPutRolePolicy(aws, LAMBDA_EXECUTION_ROLE_NAME)
            /\ HasFile("lambda-execution-permissions.json"),
            PutRolePolicy(aws, LAMBDA_EXECUTION_ROLE_NAME, ExecutionPolicyName,
                          File("lambda-execution-permissions.json")),
            sh, sh, {}, "rm", "rm")

\* LAMBDA_EXECUTION_ROLE_ARN="arn:aws:iam::${ACCOUNT_ID}:role/${LAMBDA_EXECUTION_ROLE_NAME}"
ExecutionRoleArnOfWorkshopRole(acct) == "arn:aws:iam::" \o acct \o ":role/" \o WORKSHOP_ROLE_NAME
ExecutionRoleArnOf(acct) == "arn:aws:iam::" \o acct \o ":role/" \o LAMBDA_EXECUTION_ROLE_NAME

SetupComplete == "AWS Environment Setup Complete!"

\* What the script prints once everything before succeeded.
SetupSummary(v) ==
    { SetupComplete,
      "AWS_ROLE_ARN: " \o v.WORKSHOP_ROLE_ARN,
      "LAMBDA_EXECUTION_ROLE_ARN: " \o v.LAMBDA_EXECUTION_ROLE_ARN }

SetupFiles ==
    {"trust-policy.json", "workshop-permissions.json", "lambda-trust-policy.json",
     "lambda-execution-permissions.json"}

\* rm -f of the four documents, then the summary; the script ends with status 0.
SetupFinish ==
    /\ script = "setup"
    /\ pc = "rm"
    /\ LET v == [sh EXCEPT !.LAMBDA_EXECUTION_ROLE_ARN = ExecutionRoleArnOf(sh.ACCOUNT_ID)]
       IN \E rc \in {0, 1} :
            /\ cmds' = Append(cmds, Cmd("rm", "", "", "plain", rc))
            /\ sh' = v
            /\ pc' = "exit"
            /\ IF rc = 0 \/ ~ErrExit("plain")
               THEN /\ files' = IF rc = 0
                                THEN [f \in DOMAIN files \ SetupFiles |-> files[f]]
                                ELSE files
                    /\ out' = out \cup SetupSummary(v)
                    /\ status' = 0
               ELSE /\ status' = rc
                    /\ UNCHANGED <<files, out>>
    /\ UNCHANGED <<aws, script, prev, runs, ghvars, lam>>

SetupStep ==
    \/ SetupArgs \/ BeginSetup \/ SetupCreds \/ SetupAccount \/ SetupOidcCheck \/ SetupOidcCreate
    \/ SetupCatTrust \/ SetupCatPerms \/ SetupRoleCheck \/ SetupRoleCreate
    \/ SetupRolePutNew \/ SetupRolePut \/ SetupCatLambdaTrust \/ SetupCatLambdaPerms
    \/ SetupExecCheck \/ SetupExecCreate \/ SetupExecPutNew \/ SetupExecPut \/ SetupFinish

(***************************************************************************)
(* cleanup-aws.sh                                                          *)
(***************************************************************************)
\* Functions[?contains(Tags[?Key==`Workshop`].Value, `GitHubActions`)].FunctionName
\* Functions and log groups live in a region: those of the workshop in the region of
\* the workflow (env: AWS_REGION: eu-west-1).  IAM is global.
WorkflowRegion == "eu-west-1"
Visible(a, region) ==
    IF region = WorkflowRegion THEN a ELSE [a EXCEPT !.functions = EmptyMap, !.logGroups = {}]

TaggedFunctionsByUserKey(a) ==
    { f \in DOMAIN a.functions :
        "GitHubActions" \in { t.Value : t \in { u \in a.functions[f].tags : u.Key = "User" } } }
TaggedFunctions(a) ==
    { f \in DOMAIN a.functions :
        "GitHubActions" \in { t.Value : t \in { u \in a.functions[f].tags : u.Key = "Workshop" } } }

\* Roles[?contains(RoleName, `workshop-lambda`) || contains(RoleName, `WorkshopLambda`)].RoleName
WorkshopRolesAnyName(a) == DOMAIN a.roles
WorkshopRoles(a) ==
    { n \in DOMAIN a.roles : Contains(n, "workshop-lambda") \/ Contains(n, "WorkshopLambda") }

\* list-policies --scope Local,
\* Policies[?contains(PolicyName, `LambdaWorkshop`) || contains(PolicyName, `workshop-lambda`)].Arn
WorkshopPolicies(a) ==
    { p \in DOMAIN a.policies :
        Contains(a.policies[p], "LambdaWorkshop") \/ Contains(a.policies[p], "workshop-lambda") }

\* describe-log-groups --log-group-name-prefix '/aws/lambda/',
\* logGroups[?contains(logGroupName, `workshop-lambda`) || contains(logGroupName, `-workshop-lambda`)]
HasPrefix(g, pre) == Len(g) >= Len(pre) /\ SubSeq(g, 1, Len(pre)) = pre
WorkshopLogGroups(a) ==
    { g \in a.logGroups :
        /\ HasPrefix(g, "/aws/lambda/")
        /\ Contains(g, "workshop-lambda") \/ Contains(g, "-workshop-lambda") }

\* for VAR in $LIST: the shell and the line after taking the next word of `list`
\* (the loop body at qBody), or after the loop (qDone) when no word is left.
ForEach(v, loop, var, list, qBody, qDone) ==
    IF list = <<>>
    THEN <<v, qDone>>
    ELSE <<[v EXCEPT ![var] = Head(list), ![loop] = Tail(list)], qBody>>

\* if [ -n "$LIST" ] ... else echo "No ... found"
IfNone(list, line) == IF list = <<>> THEN {line} ELSE {}

CleanupComplete == "AWS Environment Cleanup Complete!"
AllRemoved == "All workshop-related AWS resources have been removed."

StartCleanup == Start("cleanup")
BeginCleanup == \E n \in CleanupScripts : Begin(n)
CleanupArgs == \E n \in CleanupScripts : ParseArgs(n)

\* aws sts get-caller-identity
CleanupCreds ==
    /\ IsCleanup
    /\ Step("creds", "sts get-caller-identity", "", "", "plain", TRUE,
            aws, sh, sh, {}, "list_fn", "list_fn")

\* FUNCTIONS=$(aws lambda list-functions --query ...); the loop over them starts
CleanupListFunctions ==
    /\ IsCleanup
    /\ \E fs \in Orders(TaggedFunctions(Visible(aws, EffectiveRegion(sh)))) :
        LET ok == ForEach([sh EXCEPT !.FUNCTIONS = fs], "outer", "FUNCTION_NAME", fs,
                          "url_check", "list_roles")
        IN Step("list_fn", "lambda list-functions", "", "", "plain", TRUE,
                aws, ok[1], sh, IfNone(fs, "No workshop Lambda functions found"),
                ok[2], "list_roles")

\* if aws lambda get-function-url-config --function-name "$FUNCTION_NAME" >/dev/null 2>&1
CleanupUrlCheck ==
    /\ IsCleanup
    /\ Step("url_check", "lambda get-function-url-config", sh.FUNCTION_NAME, "", "if",
            HasUrlConfig(aws, sh.FUNCTION_NAME), aws, sh, sh, {}, "url_del", "fn_del")

\* aws lambda delete-function-url-config --function-name "$FUNCTION_NAME" 2>/dev/null || true
CleanupUrlDeletePlain ==
    /\ IsCleanup
    /\ Step("url_del", "lambda delete-function-url-config", sh.FUNCTION_NAME, "", "plain",
            CanDeleteUrlConfig(aws, sh.FUNCTION_NAME), DeleteUrlConfig(aws, sh.FUNCTION_NAME),
            sh, sh, {}, "fn_del", "fn_del")

CleanupUrlDelete ==
    /\ IsCleanup
    /\ Step("url_del", "lambda delete-function-url-config", sh.FUNCTION_NAME, "", "ortrue",
            CanDeleteUrlConfig(aws, sh.FUNCTION_NAME), DeleteUrlConfig(aws, sh.FUNCTION_NAME),
            sh, sh, {}, "fn_del", "fn_del")

\* aws lambda delete-function --function-name "$FUNCTION_NAME"; next function
CleanupFunctionDelete ==
    /\ IsCleanup
    /\ LET nx == ForEach(sh, "outer", "FUNCTION_NAME", sh.outer, "url_check", "list_roles")
       IN Step("fn_del", "lambda delete-function", sh.FUNCTION_NAME, "", "plain",
               CanDeleteFunction(aws, sh.FUNCTION_NAME), DeleteFunction(aws, sh.FUNCTION_NAME),
               nx[1], nx[1], {}, nx[2], nx[2])

\* ROLES=$(aws iam list-roles --query ...); the loop over them starts
CleanupListRoles ==
    /\ IsCleanup
    /\ \E rs \in Orders(WorkshopRoles(aws)) :
        LET ok == ForEach([sh EXCEPT !.ROLES = rs], "outer", "ROLE_NAME", rs,
                          "list_attached", "list_pol")
        IN Step("list_roles", "iam list-roles", "", "", "plain", TRUE,
                aws, ok[1], sh, IfNone(rs, "No Lambda execution roles found"),
                ok[2], "list_pol")

CleanupListAttachedNoDetach ==
    /\ IsCleanup
    /\ \E ps \in Orders(IF HasRole(aws, sh.ROLE_NAME) THEN aws.roles[sh.ROLE_NAME].attached
                        ELSE {}) :
        Step("list_attached", "iam list-attached-role-policies", sh.ROLE_NAME, "", "plain",
             HasRole(aws, sh.ROLE_NAME), aws, [sh EXCEPT !.POLICIES = ps], sh, {},
             "list_inline", "list_inline")

\* POLICIES=$(aws iam list-attached-role-policies --role-name "$ROLE_NAME" ...)
CleanupListAttached ==
    /\ IsCleanup
    /\ \E ps \in Orders(IF HasRole(aws, sh.ROLE_NAME) THEN aws.roles[sh.ROLE_NAME].attached
                        ELSE {}) :
        LET ok == ForEach([sh EXCEPT !.POLICIES = ps], "inner", "POLICY_ARN", ps,
                          "detach", "list_inline")
        IN Step("list_attached", "iam list-attached-role-policies", sh.ROLE_NAME, "", "plain",
                HasRole(aws, sh.ROLE_NAME), aws, ok[1], sh, {}, ok[2], "list_inline")

\* aws iam detach-role-policy --role-name "$ROLE_NAME" --policy-arn "$POLICY_ARN"
CleanupDetach ==
    /\ IsCleanup
    /\ LET nx == ForEach(sh, "inner", "POLICY_ARN", sh.inner, "detach", "list_inline")
       IN Step("detach", "iam detach-role-policy", sh.ROLE_NAME, sh.POLICY_ARN, "plain",
               CanDetachRolePolicy(aws, sh.ROLE_NAME, sh.POLICY_ARN),
               DetachRolePolicy(aws, sh.ROLE_NAME, sh.POLICY_ARN),
               nx[1], nx[1], {}, nx[2], nx[2])

\* INLINE_POLICIES=$(aws iam list-role-policies --role-name "$ROLE_NAME" ...)
CleanupListInline ==
    /\ IsCleanup
    /\ \E ps \in Orders(IF HasRole(aws, sh.ROLE_NAME) THEN DOMAIN aws.roles[sh.ROLE_NAME].inline
                        ELSE {}) :
        LET ok == ForEach([sh EXCEPT !.INLINE_POLICIES = ps], "inner", "INLINE_POLICY", ps,
                          "del_inline", "del_role")
        IN Step("list_inline", "iam list-role-policies", sh.ROLE_NAME, "", "plain",
                HasRole(aws, sh.ROLE_NAME), aws, ok[1], sh, {}, ok[2], "del_role")

\* aws iam delete-role-policy --role-name "$ROLE_NAME" --policy-name "$INLINE_POLICY"
CleanupDeleteInline ==
    /\ IsCleanup
    /\ LET nx == ForEach(sh, "inner", "INLINE_POLICY", sh.inner, "del_inline", "del_role")
       IN Step("del_inline", "iam delete-role-policy", sh.ROLE_NAME, sh.INLINE_POLICY, "plain",
               CanDeleteRolePolicy(aws, sh.ROLE_NAME, sh.INLINE_POLICY),
               DeleteRolePolicy(aws, sh.ROLE_NAME, sh.INLINE_POLICY),
               nx[1], nx[1], {}, nx[2], nx[2])

\* aws iam delete-role --role-name "$ROLE_NAME"; next role
CleanupDeleteRole ==
    /\ IsCleanup
    /\ LET nx == ForEach(sh, "outer", "ROLE_NAME", sh.outer, "list_attached", "list_pol")
       IN Step("del_role", "iam delete-role", sh.ROLE_NAME, "", "plain",
               CanDeleteRole(aws, sh.ROLE_NAME), DeleteRole(aws, sh.ROLE_NAME),
               nx[1], nx[1], {}, nx[2], nx[2])

\* POLICIES=$(aws iam list-policies --scope Local --query ...); the loop over them starts
CleanupListPolicies ==
    /\ IsCleanup
    /\ \E ps \in Orders(WorkshopPolicies(aws)) :
        LET ok == ForEach([sh EXCEPT !.POLICIES = ps], "outer", "POLICY_ARN", ps,
                          "list_entities", "list_lg")
        IN Step("list_pol", "iam list-policies", "", "", "plain", TRUE,
                aws, ok[1], sh, IfNone(ps, "No workshop policies found"),
                ok[2], "list_lg")

\* ROLE_NAMES=$(aws iam list-entities-for-policy --policy-arn "$POLICY_ARN" ...)
CleanupListEntities ==
    /\ IsCleanup
    /\ \E rs \in Orders(PolicyRoles(aws, sh.POLICY_ARN)) :
        LET ok == ForEach([sh EXCEPT !.ROLE_NAMES = rs], "inner", "ROLE_NAME", rs,
                          "detach2", "del_pol")
        IN Step("list_entities", "iam list-entities-for-policy", sh.POLICY_ARN, "", "plain",
                sh.POLICY_ARN \in DOMAIN aws.policies, aws, ok[1], sh, {}, ok[2], "del_pol")

\* aws iam detach-role-policy --role-name "$ROLE_NAME" --policy-arn "$POLICY_ARN"
CleanupDetachFromRole ==
    /\ IsCleanup
    /\ LET nx == ForEach(sh, "inner", "ROLE_NAME", sh.inner, "detach2", "del_pol")
       IN Step("detach2", "iam detach-role-policy", sh.ROLE_NAME, sh.POLICY_ARN, "plain",
               CanDetachRolePolicy(aws, sh.ROLE_NAME, sh.POLICY_ARN),
               DetachRolePolicy(aws, sh.ROLE_NAME, sh.POLICY_ARN),
               nx[1], nx[1], {}, nx[2], nx[2])

\* aws iam delete-policy --policy-arn "$POLICY_ARN"; next policy
CleanupDeletePolicy ==
    /\ IsCleanup
    /\ LET nx == ForEach(sh, "outer", "POLICY_ARN", sh.outer, "list_entities", "list_lg")
       IN Step("del_pol", "iam delete-policy", sh.POLICY_ARN, "", "plain",
               CanDeletePolicy(aws, sh.POLICY_ARN), DeletePolicy(aws, sh.POLICY_ARN),
               nx[1], nx[1], {}, nx[2], nx[2])

\* LOG_GROUPS=$(aws logs describe-log-groups ...); the loop over them starts, or the
\* script ends with its completion message
CleanupListLogGroups ==
    /\ IsCleanup
    /\ \E gs \in Orders(WorkshopLogGroups(Visible(aws, EffectiveRegion(sh)))) :
        LET ok == ForEach([sh EXCEPT !.LOG_GROUPS = gs], "outer", "LOG_GROUP", gs,
                          "del_lg", "exit")
        IN Step("list_lg", "logs describe-log-groups", "", "", "plain", TRUE,
                aws, ok[1], sh,
                IF gs = <<>> THEN {"No workshop log groups found", CleanupComplete, AllRemoved}
                ELSE {},
                ok[2], "exit")

\* aws logs delete-log-group --log-group-name "$LOG_GROUP"; next group, or the end
CleanupDeleteLogGroup ==
    /\ IsCleanup
    /\ LET nx == ForEach(sh, "outer", "LOG_GROUP", sh.outer, "del_lg", "exit")
       IN Step("del_lg", "logs delete-log-group", sh.LOG_GROUP, "", "plain",
               CanDeleteLogGroup(aws, sh.LOG_GROUP), DeleteLogGroup(aws, sh.LOG_GROUP),
               nx[1], nx[1], IF nx[2] = "exit" THEN {CleanupComplete, AllRemoved} ELSE {},
               nx[2], nx[2])

CleanupStep ==
    \/ CleanupArgs \/ BeginCleanup \/ CleanupCreds \/ CleanupListFunctions \/ CleanupUrlCheck
    \/ CleanupUrlDelete \/ CleanupFunctionDelete \/ CleanupListRoles \/ CleanupListAttached
    \/ CleanupDetach \/ CleanupListInline \/ CleanupDeleteInline \/ CleanupDeleteRole
    \/ CleanupListPolicies \/ CleanupListEntities \/ CleanupDetachFromRole
    \/ CleanupDeletePolicy \/ CleanupListLogGroups \/ CleanupDeleteLogGroup

(***************************************************************************)
(* .github/workflows/deploy-lambda.yaml, as the README builds it.          *)
(***************************************************************************)
\* A branch filter "*<suffix>": `*` matches any characters except "/".
MatchesStar(name, suffix) ==
    /\ Len(name) >= Len(suffix)
    /\ SubSeq(name, Len(name) - Len(suffix) + 1, Len(name)) = suffix
    /\ \A i \in 1..(Len(name) - Len(suffix)) : SubSeq(name, i, i) # "/"

\* on: push: branches: ["*-workshop"]
BranchFilter(b) == MatchesStar(b, "-workshop")

\* on: push: paths: [.github/**, lambda/**]: some changed file lies under one of them.
PathFilter(changed) ==
    \E f \in changed : HasPrefix(f, ".github/") \/ HasPrefix(f, "lambda/")

TriggersOnAnyPath(b, changed) == BranchFilter(b)
Triggers(b, changed) == BranchFilter(b) /\ PathFilter(changed)

\* env: FUNCTION_NAME: ${{ github.ref_name }}
SharedFunctionName(run) == "workshop-lambda"
FunctionName(run) == run.branch

\* The subject of the OIDC token GitHub issues to a run of this repository.
Subject(run) ==
    "repo:daemon-labs-io/github-actions-aws-lambda:ref:refs/heads/" \o run.branch

NoSecrets == [AWS_ROLE_ARN |-> "", LAMBDA_EXECUTION_ROLE_ARN |-> ""]

\* StringLike with a pattern that ends in its only "*".
StringLike(v, pattern) ==
    \/ pattern = ""
    \/ /\ Len(pattern) > 0
       /\ SubSeq(pattern, Len(pattern), Len(pattern)) = "*"
       /\ HasPrefix(v, SubSeq(pattern, 1, Len(pattern) - 1))

\* sts:AssumeRoleWithWebIdentity: the roles with ARN `arn` whose trust policy lets a
\* token of a registered provider with subject `sub` assume them.
Assumable(a, arn, sub) ==
    { n \in DOMAIN a.roles :
        /\ a.roles[n].arn = arn
        /\ \E st \in a.roles[n].trust :
            /\ "sts:AssumeRoleWithWebIdentity" \in st.actions
            /\ st.principal \in DOMAIN a.oidc
            /\ "sts.amazonaws.com" \in a.oidc[st.principal]
            /\ StringLike(sub, st.cond) }

\* Who may ask STS for the credentials of a role: the bearer of a web identity token
\* (issuer, audience, subject), or an AWS principal (a service, a user) calling
\* sts:AssumeRole.
Web(issuer, aud, sub) == [kind |-> "web", issuer |-> issuer, aud |-> aud, sub |-> sub]
AwsPrincipal(name) == [kind |-> "aws", issuer |-> name, aud |-> "", sub |-> ""]
ProviderArn(a, issuer) == "arn:aws:iam::" \o a.account \o ":oidc-provider/" \o issuer

\* The decision of STS on role n for principal p: a statement of the trust policy
\* names the principal and the way it asks, and for a token the provider is
\* registered with the token's audience and the condition on the subject holds.
CanAssume(a, n, p) ==
    /\ n \in DOMAIN a.roles
    /\ \E st \in a.roles[n].trust :
        IF p.kind = "web"
        THEN /\ "sts:AssumeRoleWithWebIdentity" \in st.actions
             /\ st.principal = ProviderArn(a, p.issuer)
             /\ st.principal \in DOMAIN a.oidc
             /\ p.aud \in a.oidc[st.principal]
             /\ StringLike(p.sub, st.cond)
        ELSE /\ "sts:AssumeRole" \in st.actions
             /\ st.principal = p.issuer

\* Whether the role's inline policies allow an API action.
Allowed(a, role, action) ==
    /\ role \in DOMAIN a.roles
    /\ \E pn \in DOMAIN a.roles[role].inline :
        \E st \in a.roles[role].inline[pn] : action \in st.actions

\* Whether Lambda can run a function under the role with this ARN.
LambdaCanAssume(a, arn) ==
    \E n \in DOMAIN a.roles :
        /\ a.roles[n].arn = arn
        /\ \E st \in a.roles[n].trust :
            st.principal = "lambda.amazonaws.com" /\ "sts:AssumeRole" \in st.actions

NewRun(b, actor, changed) ==
    [branch |-> b, actor |-> actor, changed |-> changed, pc |-> "checkout",
     exists |-> "", role |-> "", calls |-> {}, deploy |-> "cli", done |-> <<>>,
     url |-> ""]

\* The workflow file is part of the branch: a push may bring the workflow of Section 6,
\* whose deployment step is the aws-lambda-deploy action ("action"), or the workflow
\* of the README's first revision, which gives the function a Function URL ("url").
RunOf(p) ==
    [NewRun(p.branch, p.actor, p.changed) EXCEPT
        !.deploy = IF "deploy" \in DOMAIN p THEN p.deploy ELSE "cli"]

\* concurrency: group: ${{ github.workflow }}-${{ github.ref }}, cancel-in-progress: true
SameGroup(run, b) == run.branch = b
QueueBehind(runs_, b) == runs_
CancelInProgress(runs_, b) ==
    [i \in DOMAIN runs_ |->
        IF InProgress(runs_[i]) /\ SameGroup(runs_[i], b)
        THEN [runs_[i] EXCEPT !.pc = "cancelled"]
        ELSE runs_[i]]

\* The workshop is on: the secrets are in place and the facilitator runs no script.
WorkshopOn == script = "none" /\ pc = "exit" /\ secrets # NoSecrets

\* Somebody pushes to a branch; the workflow starts when the push passes its filters.
Push(ps) ==
    /\ WorkshopOn
    /\ pushes < MaxPushes
    /\ pushes' = pushes + 1
    /\ \E p \in ps :
        wf' = IF Triggers(p.branch, p.changed)
              THEN Append(CancelInProgress(wf, p.branch), RunOf(p))
              ELSE wf
    /\ UNCHANGED <<aws, shvars, secrets, lam>>

\* The pushes of a workshop: participants push to their own branch and to each
\* other's, change the function, the workflow or the documentation, and push to
\* branches that are not workshop branches.
APush(b, actor, changed) == [branch |-> b, actor |-> actor, changed |-> changed]
WorkshopPushes ==
    { APush("alice-workshop", "alice", {"lambda/src/index.ts"}),
      APush("alice-workshop", "bob", {".github/workflows/deploy-lambda.yaml"}),
      APush("bob-workshop", "bob", {"lambda/src/index.ts"}),
      APush("bob-workshop", "bob", {"README.md", "docs/lambda/notes.md"}),
      APush("main", "alice", {"lambda/src/index.ts"}),
      APush("docs/x-workshop", "bob", {".github/workflows/deploy-lambda.yaml"}) }

\* A participant pushes a change of the function's code.
CodePushes ==
    { APush("alice-workshop", "alice", {"lambda/src/index.ts"}),
      APush("main", "alice", {"lambda/src/index.ts"}) }
PushCode == Push(CodePushes)

\* Any push of the workshop.
PushAny == Push(WorkshopPushes)

\* A participant pushes the simplified workflow of Section 6.
SimplifiedPush(b, actor) ==
    [branch |-> b, actor |-> actor, changed |-> {".github/workflows/deploy-lambda.yaml"},
     deploy |-> "action"]
SimplifiedPushes ==
    {SimplifiedPush("alice-workshop", "alice"), SimplifiedPush("alice-workshop", "bob")}
PushSimplified == Push(SimplifiedPushes)

\* The facilitator adds the two ARNs the setup script printed as repository secrets
\* and leaves the shell: the workshop starts.
AddSecrets ==
    /\ script = "setup"
    /\ pc = "exit"
    /\ status = 0
    /\ SetupComplete \in out
    /\ secrets' = [AWS_ROLE_ARN |-> sh.WORKSHOP_ROLE_ARN,
                   LAMBDA_EXECUTION_ROLE_ARN |-> sh.LAMBDA_EXECUTION_ROLE_ARN]
    /\ script' = "none"
    /\ sh' = InitSh
    /\ out' = {}
    /\ cmds' = <<>>
    /\ prev' = NoPrev
    /\ UNCHANGED <<aws, pc, status, files, runs, wf, pushes, lam>>

\* Run i is at step `here`.
At(i, here) == WorkshopOn /\ i \in DOMAIN wf /\ wf[i].pc = here

\* A step that does not call AWS: it succeeds or fails the run.  A run keeps the
\* steps that have succeeded in `done` (the check marks of its log); a step after a
\* failed one does not run (no step has `if: always()` or continue-on-error).
LocalContinueOnError(i, here, next) ==
    /\ At(i, here)
    /\ \E ok \in BOOLEAN :
        wf' = [wf EXCEPT ![i].pc = next,
                         ![i].done = IF ok THEN Append(@, here) ELSE @]
    /\ UNCHANGED <<aws, shvars, secrets, pushes, lam>>
Local(i, here, next) ==
    /\ At(i, here)
    /\ \E ok \in BOOLEAN :
        wf' = [wf EXCEPT ![i].pc = IF ok THEN next ELSE "failed",
                         ![i].done = IF ok THEN Append(@, here) ELSE @]
    /\ UNCHANGED <<aws, shvars, secrets, pushes, lam>>

\* uses: actions/checkout
WfCheckout(i) == Local(i, "checkout", "creds")

\* uses: aws-actions/configure-aws-credentials, role-to-assume: secrets.AWS_ROLE_ARN
WfCredentials(i) ==
    /\ At(i, "creds")
    /\ \/ \E n \in Assumable(aws, secrets.AWS_ROLE_ARN, Subject(wf[i])) :
            wf' = [wf EXCEPT ![i].pc = "node", ![i].role = n, ![i].done = Append(@, "creds")]
       \/ wf' = [wf EXCEPT ![i].pc = "failed"]
    /\ UNCHANGED <<aws, shvars, secrets, pushes, lam>>

\* uses: actions/setup-node; run: npm ci; npm run build; npm run package
WfSetupNode(i) == Local(i, "node", "npm_ci")
WfInstall(i) == Local(i, "npm_ci", "build")
WfBuild(i) == Local(i, "build", "package")
WfPackage(i) ==
    /\ i \in DOMAIN wf
    /\ Local(i, "package", IF wf[i].deploy = "action" THEN "deploy" ELSE "check")

Call(op, fn) == [op |-> op, fn |-> fn]

\* if aws lambda get-function ...; then exists=true else exists=false: the step
\* itself always succeeds
WfCheck(i) ==
    /\ At(i, "check")
    /\ LET fn == FunctionName(wf[i])
       IN \E rc \in ExitCodes :
            /\ rc = 0 => HasFunction(aws, fn) /\ Allowed(aws, wf[i].role, "lambda:GetFunction")
            /\ wf' = [wf EXCEPT ![i].pc = "create",
                                ![i].exists = IF rc = 0 THEN "true" ELSE "false",
                                ![i].calls = @ \cup {Call("get-function", fn)},
                                ![i].done = Append(@, "check")]
    /\ UNCHANGED <<aws, shvars, secrets, pushes, lam>>

\* if: steps.check_lambda.outputs.exists == 'false' / == 'true'
CreateIf(run) == run.exists = "false"
UpdateIfAlways(run) == TRUE
UpdateIf(run) == run.exists = "true"

\* aws lambda create-function --function-name .. --role .. --tags Workshop=GitHubActions,User=..
CanCreateFunction(a, role, fn, execArn) ==
    /\ fn \notin DOMAIN a.functions
    /\ Allowed(a, role, "lambda:CreateFunction")
    /\ Allowed(a, role, "lambda:TagResource")
    /\ Allowed(a, role, "iam:PassRole")
    /\ LambdaCanAssume(a, execArn)
\* with --runtime, --handler build/index.handler, --description "Workshop Lambda
\* deployed by <actor>" and --environment Variables={GITHUB_ACTOR=<actor>}.
Handler == "build/index.handler"
RuntimeOf(run) == IF run.deploy = "url" THEN "nodejs20.x" ELSE "nodejs24.x"
DescriptionOf(actor) == "Workshop Lambda deployed by " \o actor
CreateFunction(a, fn, execArn, actor, code, runtime) ==
    [a EXCEPT !.functions = Put(a.functions, fn,
        [tags |-> {WorkshopTag, [Key |-> "User", Value |-> actor]}, url |-> FALSE,
         perms |-> {}, code |-> code, actor |-> actor, role |-> execArn,
         desc |-> DescriptionOf(actor), runtime |-> runtime, handler |-> Handler,
         env |-> [GITHUB_ACTOR |-> actor]])]

\* aws lambda update-function-code --function-name .. --zip-file fileb://function.zip
CanUpdateFunctionCode(a, role, fn) ==
    fn \in DOMAIN a.functions /\ Allowed(a, role, "lambda:UpdateFunctionCode")
UpdateFunctionCodeAndRuntime(a, fn, code) ==
    [a EXCEPT !.functions[fn].code = code, !.functions[fn].runtime = "nodejs20.x"]
UpdateFunctionCode(a, fn, code) == [a EXCEPT !.functions[fn].code = code]

\* aws lambda invoke: the function runs; Lambda creates its log group
\* /aws/lambda/<name> when the execution role may.
CanInvoke(a, role, fn) == fn \in DOMAIN a.functions /\ Allowed(a, role, "lambda:InvokeFunction")
LogGroupOf(fn) == "/aws/lambda/" \o fn
Invoke(a, fn) ==
    IF \E n \in DOMAIN a.roles :
          a.roles[n].arn = a.functions[fn].role /\ Allowed(a, n, "logs:CreateLogGroup")
    THEN [a EXCEPT !.logGroups = a.logGroups \cup {LogGroupOf(fn)}]
    ELSE a

\* An AWS CLI step of run i: skipped when its `if` is false; otherwise the command
\* runs, and a failure fails the run.
AwsStepOf(i, here, next, cond, op, feasible, a2) ==
    /\ At(i, here)
    /\ IF ~cond
       THEN /\ wf' = [wf EXCEPT ![i].pc = next]
            /\ UNCHANGED aws
       ELSE \E rc \in ExitCodes :
            /\ rc = 0 => feasible
            /\ wf' = [wf EXCEPT ![i].pc = IF rc = 0 THEN next ELSE "failed",
                                ![i].calls = @ \cup {Call(op, FunctionName(wf[i]))},
                                ![i].done = IF rc = 0 THEN Append(@, here) ELSE @]
            /\ aws' = IF rc = 0 THEN a2 ELSE aws
    /\ UNCHANGED <<shvars, secrets, pushes, lam>>

\* - name: Create Lambda function
WfCreate(i) ==
    /\ i \in DOMAIN wf
    /\ LET fn == FunctionName(wf[i])
       IN AwsStepOf(i, "create", "update", CreateIf(wf[i]), "create-function",
                    CanCreateFunction(aws, wf[i].role, fn, secrets.LAMBDA_EXECUTION_ROLE_ARN),
                    CreateFunction(aws, fn, secrets.LAMBDA_EXECUTION_ROLE_ARN, wf[i].actor, i,
                                   RuntimeOf(wf[i])))

\* - name: Update Lambda function code
WfUpdate(i) ==
    /\ i \in DOMAIN wf
    /\ LET fn == FunctionName(wf[i])
       IN AwsStepOf(i, "update", IF wf[i].deploy = "url" THEN "url_get" ELSE "test",
                    UpdateIf(wf[i]), "update-function-code",
                    CanUpdateFunctionCode(aws, wf[i].role, fn),
                    UpdateFunctionCode(aws, fn, i))

\* - name: Test Lambda function
WfTest(i) ==
    /\ i \in DOMAIN wf
    /\ LET fn == FunctionName(wf[i])
       IN AwsStepOf(i, "test", "success", TRUE, "invoke",
                    CanInvoke(aws, wf[i].role, fn), Invoke(aws, fn))

WorkflowStep ==
    \E i \in DOMAIN wf :
        \/ WfCheckout(i) \/ WfCredentials(i) \/ WfSetupNode(i) \/ WfInstall(i)
        \/ WfBuild(i) \/ WfPackage(i) \/ WfCheck(i) \/ WfCreate(i) \/ WfUpdate(i)
        \/ WfTest(i)

(***************************************************************************)
(* The workflow of the README's first revision: after the deployment it    *)
(* gives the function a Function URL and tests it over HTTP.               *)
(***************************************************************************)
UrlOf(fn) == "https://" \o fn \o ".lambda-url.eu-west-1.on.aws/"
PublicAccess == "function-url-public-access"

\* aws lambda get-function-url-config
CanGetUrlConfig(a, role, fn) ==
    HasUrlConfig(a, fn) /\ Allowed(a, role, "lambda:GetFunctionUrlConfig")

\* aws lambda create-function-url-config --auth-type NONE
CanCreateUrlConfig(a, role, fn) ==
    /\ HasFunction(a, fn)
    /\ ~HasUrlConfig(a, fn)
    /\ Allowed(a, role, "lambda:CreateFunctionUrlConfig")
CreateUrlConfig(a, fn) == [a EXCEPT !.functions[fn].url = TRUE]

\* aws lambda add-permission --statement-id function-url-public-access: Lambda refuses
\* a statement id the function's policy already holds.
CanAddPermission(a, role, fn, sid) ==
    /\ HasFunction(a, fn)
    /\ sid \notin a.functions[fn].perms
    /\ Allowed(a, role, "lambda:AddPermission")
AddPermission(a, fn, sid) == [a EXCEPT !.functions[fn].perms = @ \cup {sid}]

\* - name: Get Lambda function URL: `if aws lambda get-function-url-config` decides;
\* when it succeeds the URL is queried (a failure of the query fails the step) and
\* written to the output `url`, otherwise `url=` is written.
WfUrlGet(i) ==
    /\ At(i, "url_get")
    /\ LET fn == FunctionName(wf[i])
       IN \E rc, rc2 \in ExitCodes :
            /\ (rc = 0 \/ rc2 = 0) => CanGetUrlConfig(aws, wf[i].role, fn)
            /\ rc # 0 => rc2 # 0
            /\ wf' = [wf EXCEPT
                        ![i].pc = IF rc = 0 /\ rc2 # 0 THEN "failed" ELSE "url_create",
                        ![i].url = IF rc = 0 /\ rc2 = 0 THEN UrlOf(fn) ELSE "",
                        ![i].calls = @ \cup {Call("get-function-url-config", fn)},
                        ![i].done = IF rc = 0 /\ rc2 # 0 THEN @ ELSE Append(@, "url_get")]
    /\ UNCHANGED <<aws, shvars, secrets, pushes, lam>>

\* if: steps.lambda_info.outputs.url == ''
CreateUrlIf(run) == run.url = ""

\* - name: Create Function URL (if not exists), first command:
\* FUNCTION_URL=$(aws lambda create-function-url-config ...)
WfUrlCreate(i) ==
    /\ At(i, "url_create")
    /\ LET fn == FunctionName(wf[i])
       IN IF ~CreateUrlIf(wf[i])
          THEN /\ wf' = [wf EXCEPT ![i].pc = "url_test"]
               /\ UNCHANGED aws
          ELSE \E rc \in ExitCodes :
                /\ rc = 0 => CanCreateUrlConfig(aws, wf[i].role, fn)
                /\ wf' = [wf EXCEPT
                            ![i].pc = IF rc = 0 THEN "url_perm" ELSE "failed",
                            ![i].calls = @ \cup {Call("create-function-url-config", fn)}]
                /\ aws' = IF rc = 0 THEN CreateUrlConfig(aws, fn) ELSE aws
    /\ UNCHANGED <<shvars, secrets, pushes, lam>>

\* The same step, second command: aws lambda add-permission ...; then the URL is
\* written to the output and the step has succeeded.
WfUrlPermission(i) ==
    /\ At(i, "url_perm")
    /\ LET fn == FunctionName(wf[i])
       IN \E rc \in ExitCodes :
            /\ rc = 0 => CanAddPermission(aws, wf[i].role, fn, PublicAccess)
            /\ wf' = [wf EXCEPT
                        ![i].pc = IF rc = 0 THEN "url_test" ELSE "failed",
                        ![i].url = IF rc = 0 THEN UrlOf(fn) ELSE @,
                        ![i].calls = @ \cup {Call("add-permission", fn)},
                        ![i].done = IF rc = 0 THEN Append(@, "url_create") ELSE @]
            /\ aws' = IF rc = 0 THEN AddPermission(aws, fn, PublicAccess) ELSE aws
    /\ UNCHANGED <<shvars, secrets, pushes, lam>>

\* What a POST to the Function URL answers: the function's response, or 403 Forbidden
\* (a JSON body as well) when the function's policy does not let the public in.
HttpStatus(a, fn) == IF PublicAccess \in a.functions[fn].perms THEN 200 ELSE 403

\* - name: Test Lambda function: the URL is queried (a failure fails the step), then
\* curl -s posts to it and jq reads the response; whatever the status found, the
\* script only prints a line, so the step succeeds unless curl itself fails.
WfUrlTest(i) ==
    /\ At(i, "url_test")
    /\ LET fn == FunctionName(wf[i])
       IN \E rc, curl \in ExitCodes :
            /\ rc = 0 => CanGetUrlConfig(aws, wf[i].role, fn)
            /\ wf' = [wf EXCEPT
                        ![i].pc = IF rc = 0 /\ curl = 0 THEN "success" ELSE "failed",
                        ![i].calls = @ \cup {Call("get-function-url-config", fn)}
                                       \cup (IF rc = 0
                                             THEN {Call("POST " \o ToString(HttpStatus(aws, fn)), fn)}
                                             ELSE {}),
                        ![i].done = IF rc = 0 /\ curl = 0 THEN Append(@, "url_test") ELSE @]
    /\ UNCHANGED <<aws, shvars, secrets, pushes, lam>>

\* A participant pushes the workflow with the Function URL steps.
UrlPush(b, actor) ==
    [branch |-> b, actor |-> actor, changed |-> {".github/workflows/deploy-lambda.yaml"},
     deploy |-> "url"]
UrlPushes == {UrlPush("alice-workshop", "alice"), UrlPush("alice-workshop", "bob")}
PushUrl == Push(UrlPushes)

WorkflowStepUrl ==
    \/ WorkflowStep
    \/ \E i \in DOMAIN wf : WfUrlGet(i) \/ WfUrlCreate(i) \/ WfUrlPermission(i) \/ WfUrlTest(i)

\* - name: Deploy to Lambda, uses: aws-actions/aws-lambda-deploy@v1, with the inputs
\* function-name, function-description, code-artifacts-dir, handler, runtime: the
\* step gives no `role` and no `tags`.
ActionRoleInputFromSecrets == secrets.LAMBDA_EXECUTION_ROLE_ARN
ActionRoleInput == ""
ActionTagsInput == {}
ActionDescription(run) == DescriptionOf(run.actor)

\* "Checking if the function exists; creating or updating the function": a function
\* that exists gets the code and the configuration of the inputs; a function that does
\* not is created with the inputs, which Lambda accepts only with an execution role.
CanActionDeploy(a, role, fn) ==
    IF HasFunction(a, fn)
    THEN /\ Allowed(a, role, "lambda:UpdateFunctionCode")
         /\ Allowed(a, role, "lambda:UpdateFunctionConfiguration")
    ELSE /\ Allowed(a, role, "lambda:CreateFunction")
         /\ Allowed(a, role, "iam:PassRole")
         /\ LambdaCanAssume(a, ActionRoleInput)
ActionDeploy(a, fn, run, code) ==
    IF HasFunction(a, fn)
    THEN [a EXCEPT !.functions[fn].code = code, !.functions[fn].desc = ActionDescription(run),
                   !.functions[fn].handler = Handler, !.functions[fn].runtime = "nodejs24.x"]
    ELSE [a EXCEPT !.functions = Put(a.functions, fn,
            [tags |-> ActionTagsInput, url |-> FALSE, perms |-> {}, code |-> code,
             actor |-> run.actor, role |-> ActionRoleInput, desc |-> ActionDescription(run),
             runtime |-> "nodejs24.x", handler |-> Handler, env |-> [GITHUB_ACTOR |-> ""]])]

WfDeployAction(i) ==
    /\ i \in DOMAIN wf
    /\ LET fn == FunctionName(wf[i])
       IN AwsStepOf(i, "deploy", "test", TRUE, "aws-lambda-deploy",
                    CanActionDeploy(aws, wf[i].role, fn), ActionDeploy(aws, fn, wf[i], i))

WorkflowStepSimplified == WorkflowStep \/ \E i \in DOMAIN wf : WfDeployAction(i)

(***************************************************************************)
(* lambda/src/index.ts: the handler, with JSON.stringify as JavaScript     *)
(* defines it and JSON.parse to read the body back.                        *)
(***************************************************************************)
\* A JavaScript value: null, a boolean, an integer, a string, an array, an object
\* (its members in order), undefined or a function.
JNull == [t |-> "null"]
JUndefined == [t |-> "undefined"]
JFunction == [t |-> "function"]
JErrorValue == [t |-> "error"]
Bool(b) == [t |-> "bool", b |-> b]
Num(n) == [t |-> "num", n |-> n]
Str(s) == [t |-> "str", s |-> s]
Arr(xs) == [t |-> "arr", xs |-> xs]
Obj(ms) == [t |-> "obj", ms |-> ms]
Member(k, v) == [k |-> k, v |-> v]

\* JSON.stringify of a string: quotes around it, and `"`, `\` and newline escaped.
EscapeChar(c) ==
    IF c = "\"" THEN "\\\"" ELSE IF c = "\\" THEN "\\\\" ELSE IF c = "\n" THEN "\\n" ELSE c
RECURSIVE Escape(_)
Escape(s) ==
    IF s = "" THEN "" ELSE EscapeChar(SubSeq(s, 1, 1)) \o Escape(SubSeq(s, 2, Len(s)))
QuoteRaw(s) == "\"" \o s \o "\""
Quote(s) == "\"" \o Escape(s) \o "\""

\* JSON.stringify: undefined and functions have no JSON text; as members of an
\* object they are left out, as elements of an array they become null.
Serializable(j) == j.t \notin {"undefined", "function"}
RECURSIVE Stringify(_), JoinElems(_), JoinMembers(_)
Stringify(j) ==
    IF j.t = "null" THEN "null"
    ELSE IF j.t = "bool" THEN (IF j.b THEN "true" ELSE "false")
    ELSE IF j.t = "num" THEN ToString(j.n)
    ELSE IF j.t = "str" THEN Quote(j.s)
    ELSE IF j.t = "arr" THEN "[" \o JoinElems(j.xs) \o "]"
    ELSE "{" \o JoinMembers(SelectSeq(j.ms, LAMBDA m : Serializable(m.v))) \o "}"
JoinElems(xs) ==
    IF xs = <<>> THEN ""
    ELSE (IF Serializable(xs[1]) THEN Stringify(xs[1]) ELSE "null")
         \o (IF Len(xs) > 1 THEN "," \o JoinElems(Tail(xs)) ELSE "")
JoinMembers(ms) ==
    IF ms = <<>> THEN ""
    ELSE Quote(ms[1].k) \o ":" \o Stringify(ms[1].v)
         \o (IF Len(ms) > 1 THEN "," \o JoinMembers(Tail(ms)) ELSE "")

\* export const handler: Handler = async (event, context) => { ... }
handler(event, context) ==
    [statusCode |-> 200,
     body |-> Stringify(Obj(<<Member("event", event), Member("context", context)>>))]

\* JSON.parse, by recursive descent; a text that is not JSON gives an error value.
Parsed(v, rest) == [v |-> v, rest |-> rest]
First(s) == IF s = "" THEN "" ELSE SubSeq(s, 1, 1)
Rest(s, n) == SubSeq(s, n + 1, Len(s))
Digits == {"0", "1", "2", "3", "4", "5", "6", "7", "8", "9"}
DigitVal(c) == CHOOSE d \in 0..9 : ToString(d) = c
Unescape(c) == IF c = "n" THEN "\n" ELSE c
JError == Parsed(JErrorValue, "")
RECURSIVE ParseValue(_), ParseChars(_, _), ParseDigits(_, _), ParseElems(_, _),
          ParseMembers(_, _)
ParseChars(s, acc) ==
    IF s = "" THEN JError
    ELSE IF First(s) = "\"" THEN Parsed(Str(acc), Rest(s, 1))
    ELSE IF First(s) = "\\" THEN ParseChars(Rest(s, 2), acc \o Unescape(SubSeq(s, 2, 2)))
    ELSE ParseChars(Rest(s, 1), acc \o First(s))
ParseDigits(s, n) ==
    IF First(s) \in Digits THEN ParseDigits(Rest(s, 1), 10 * n + DigitVal(First(s)))
    ELSE Parsed(n, s)
ParseElems(s, acc) ==
    LET r == ParseValue(s)
    IN IF First(r.rest) = "," THEN ParseElems(Rest(r.rest, 1), Append(acc, r.v))
       ELSE IF First(r.rest) = "]" THEN Parsed(Arr(Append(acc, r.v)), Rest(r.rest, 1))
       ELSE JError
ParseMembers(s, acc) ==
    IF First(s) # "\"" THEN JError
    ELSE LET k == ParseChars(Rest(s, 1), "")
         IN IF k.v = JErrorValue \/ First(k.rest) # ":" THEN JError
            ELSE LET r == ParseValue(Rest(k.rest, 1))
                     ms == Append(acc, Member(k.v.s, r.v))
                 IN IF First(r.rest) = "," THEN ParseMembers(Rest(r.rest, 1), ms)
                    ELSE IF First(r.rest) = "}" THEN Parsed(Obj(ms), Rest(r.rest, 1))
                    ELSE JError
ParseValue(s) ==
    IF HasPrefix(s, "null") THEN Parsed(JNull, Rest(s, 4))
    ELSE IF HasPrefix(s, "true") THEN Parsed(Bool(TRUE), Rest(s, 4))
    ELSE IF HasPrefix(s, "false") THEN Parsed(Bool(FALSE), Rest(s, 5))
    ELSE IF First(s) = "\"" THEN ParseChars(Rest(s, 1), "")
    ELSE IF HasPrefix(s, "[]") THEN Parsed(Arr(<<>>), Rest(s, 2))
    ELSE IF First(s) = "[" THEN ParseElems(Rest(s, 1), <<>>)
    ELSE IF HasPrefix(s, "{}") THEN Parsed(Obj(<<>>), Rest(s, 2))
    ELSE IF First(s) = "{" THEN ParseMembers(Rest(s, 1), <<>>)
    ELSE IF First(s) = "-" /\ SubSeq(s, 2, 2) \in Digits
    THEN LET r == ParseDigits(Rest(s, 1), 0) IN Parsed(Num(0 - r.v), r.rest)
    ELSE IF First(s) \in Digits
    THEN LET r == ParseDigits(s, 0) IN Parsed(Num(r.v), r.rest)
    ELSE JError
JSONparse(s) ==
    LET r == ParseValue(s) IN IF r.rest = "" /\ s # "" THEN r.v ELSE JErrorValue

\* What the Lambda runtime hands the handler.  The event is the invocation payload,
\* parsed: a JSON value.  The context is an object with data members and methods.
Events ==
    { JNull, Bool(TRUE), Bool(FALSE), Num(0), Num(42), Num(0 - 7),
      Str(""), Str("hello"), Str("say \"hi\""), Str("back\\slash"), Str("two\nlines"),
      Str("null"), Str("[1,2]"), Str("{\"a\":1}"), Str("a,b:c"),
      Arr(<<>>), Arr(<<Num(1)>>), Arr(<<JNull, Str("a")>>), Arr(<<Arr(<<>>), Obj(<<>>)>>),
      Arr(<<Str("]"), Num(10)>>),
      Obj(<<>>), Obj(<<Member("k", Num(1))>>),
      Obj(<<Member("a", Str("x")), Member("b", Arr(<<Bool(TRUE)>>))>>),
      Obj(<<Member("body", Str("{\"x\":1}")), Member("isBase64Encoded", Bool(FALSE))>>),
      Obj(<<Member("statusCode", Num(500))>>),
      Obj(<<Member("event", Obj(<<Member("context", JNull)>>))>>),
      Obj(<<Member("quo\"te", Str("}"))>>),
      Obj(<<Member("headers", Obj(<<Member("x-id", Str("7"))>>)),
            Member("rawPath", Str("/"))>>) }
Contexts ==
    { Obj(<<Member("callbackWaitsForEmptyEventLoop", Bool(TRUE)),
            Member("functionName", Str("alice-workshop")),
            Member("memoryLimitInMB", Str("128")),
            Member("getRemainingTimeInMillis", JFunction),
            Member("awsRequestId", Str("r-1")),
            Member("done", JFunction)>>),
      Obj(<<Member("functionName", Str("bob-workshop")),
            Member("clientContext", JUndefined),
            Member("awsRequestId", Str("r-2"))>>) }

NoResult == [statusCode |-> 0, body |-> ""]
NoInvocation == [event |-> JNull, context |-> JNull, result |-> NoResult]

\* The runtime calls the handler with the event and the context.
HandlerRuns ==
    /\ lam.result = NoResult
    /\ lam.context # JNull
    /\ lam' = [lam EXCEPT !.result = handler(lam.event, lam.context)]
    /\ UNCHANGED <<aws, shvars, ghvars>>

(***************************************************************************)
(* Accounts a script may be started on.                                    *)
(***************************************************************************)
\* What may be found under a role name before setup runs: nothing, the role as
\* setup leaves it, or somebody else's role of that name (other trust policy,
\* description, tags and session duration), with or without inline policies.
PriorRoles(name, trust, pname, doc) ==
    { Role(RoleArn(Account, name), trust, "by setup", {WorkshopTag}, 3600,
           Put(EmptyMap, pname, doc), {}),
      Role(RoleArn(Account, name), ForeignTrustDoc, "legacy", {}, 7200,
           Put(Put(EmptyMap, pname, ForeignDoc), "Extra", ForeignDoc), {}),
      Role(RoleArn(Account, name), ForeignTrustDoc, "legacy", {}, 7200, EmptyMap, {}) }

PriorRoleMaps ==
    LET gh == PriorRoles(WORKSHOP_ROLE_NAME, TrustPolicyDoc(Account),
                         WorkshopPolicyName, WorkshopPermissionsDoc)
        ex == PriorRoles(LAMBDA_EXECUTION_ROLE_NAME, LambdaTrustPolicyDoc,
                         ExecutionPolicyName, LambdaExecutionPermissionsDoc)
        ghs == {EmptyMap} \cup { Put(EmptyMap, WORKSHOP_ROLE_NAME, r) : r \in gh }
    IN  ghs \cup { Put(m, LAMBDA_EXECUTION_ROLE_NAME, r) : m \in ghs, r \in ex }

PriorOidc ==
    { EmptyMap,
      Put(EmptyMap, OidcArn(Account), {"sts.amazonaws.com"}),
      Put(EmptyMap, OidcArn(Account), {"sigstore"}) }

SetupAccounts ==
    { [EmptyAccount EXCEPT !.oidc = o, !.roles = r] : o \in PriorOidc, r \in PriorRoleMaps }

InitIdle ==
    /\ script = "none"
    /\ pc = "exit"
    /\ status = 0
    /\ sh = InitSh
    /\ files = EmptyMap
    /\ out = {}
    /\ cmds = <<>>
    /\ prev = NoPrev
    /\ runs = 0
    /\ secrets = NoSecrets
    /\ wf = <<>>
    /\ pushes = 0
    /\ lam = NoInvocation

(***************************************************************************)
(* SpecSetup: the setup script, run up to MaxRuns times in succession on   *)
(* any prior IAM state.                                                    *)
(***************************************************************************)
InitSetup ==
    /\ aws \in SetupAccounts
    /\ InitIdle

NextSetup == StartSetup \/ SetupStep

SpecSetup == InitSetup /\ [][NextSetup]_vars

(***************************************************************************)
(* Spec: the workshop from start to end.  The facilitator runs the scripts *)
(* (up to MaxRuns runs), adds the secrets, participants push (up to        *)
(* MaxPushes pushes) and the workflow runs.  The account is empty at the   *)
(* start, or holds what an earlier edition of the workshop left behind.    *)
(***************************************************************************)
PolicyArn(acct, name) == "arn:aws:iam::" \o acct \o ":policy/" \o name

LegacyAccount ==
    [account |-> Account,
     oidc |-> EmptyMap,
     roles |->
        Put(Put(Put(EmptyMap, "workshop-lambda-exec",
                Role(RoleArn(Account, "workshop-lambda-exec"), LambdaTrustPolicyDoc, "legacy",
                     {}, 3600, Put(EmptyMap, "logs", LambdaExecutionPermissionsDoc),
                     {PolicyArn(Account, "LambdaWorkshopPolicy")})),
            "ci-deployer",
            Role(RoleArn(Account, "ci-deployer"), ForeignTrustDoc, "legacy", {}, 3600,
                 EmptyMap, {PolicyArn(Account, "LambdaWorkshopPolicy")})),
            WORKSHOP_ROLE_NAME,
            Role(RoleArn(Account, WORKSHOP_ROLE_NAME), TrustPolicyDoc(Account), "legacy",
                 {}, 3600,
                 Put(EmptyMap, "WorkshopInvoke",
                     { Stmt("", {"lambda:InvokeFunction", "lambda:GetFunctionConfiguration",
                                "lambda:UpdateFunctionConfiguration"},
                            "*", "") }),
                 {})),
     policies |-> Put(EmptyMap, PolicyArn(Account, "LambdaWorkshopPolicy"), "LambdaWorkshopPolicy"),
     functions |->
        Put(EmptyMap, "carol-workshop-lambda",
            [tags |-> {WorkshopTag, [Key |-> "User", Value |-> "carol"]}, url |-> TRUE,
             perms |-> {"function-url-public-access"}, code |-> 0, actor |-> "carol",
             role |-> RoleArn(Account, "workshop-lambda-exec"), desc |-> "",
             runtime |-> "nodejs20.x", handler |-> "index.handler",
             env |-> [GITHUB_ACTOR |-> "carol"]]),
     logGroups |-> {"/aws/lambda/carol-workshop-lambda"}]

StartAccounts == {EmptyAccount, LegacyAccount}

Init ==
    /\ aws \in StartAccounts
    /\ InitIdle

Next ==
    \/ StartSetup \/ SetupStep \/ AddSecrets
    \/ PushCode \/ WorkflowStep
    \/ StartCleanup \/ CleanupStep

Spec == Init /\ [][Next]_vars

(***************************************************************************)
(* SpecWorkflow: the workshop itself.  Setup has succeeded on an empty     *)
(* account and its ARNs are the repository's secrets; anybody pushes       *)
(* anything to any branch.                                                 *)
(***************************************************************************)
AccountAfterSetup ==
    [EmptyAccount EXCEPT
        !.oidc = Put(EmptyMap, OidcArn(Account), {"sts.amazonaws.com"}),
        !.roles =
            Put(Put(EmptyMap, WORKSHOP_ROLE_NAME,
                    Role(RoleArn(Account, WORKSHOP_ROLE_NAME), TrustPolicyDoc(Account),
                         "GitHub Actions role for Lambda workshop", {WorkshopTag}, 3600,
                         Put(EmptyMap, WorkshopPolicyName, WorkshopPermissionsDoc), {})),
                LAMBDA_EXECUTION_ROLE_NAME,
                Role(RoleArn(Account, LAMBDA_EXECUTION_ROLE_NAME), LambdaTrustPolicyDoc,
                     "Lambda execution role for workshop", {WorkshopTag}, 3600,
                     Put(EmptyMap, ExecutionPolicyName, LambdaExecutionPermissionsDoc), {}))]

\* The same after setup on an account of an earlier edition.
LegacyAccountAfterSetup ==
    LET a == CreateOidc(LegacyAccount)
        b == PutRolePolicy(a, WORKSHOP_ROLE_NAME, WorkshopPolicyName, WorkshopPermissionsDoc)
        c == CreateRole(b, LAMBDA_EXECUTION_ROLE_NAME, LambdaTrustPolicyDoc,
                        "Lambda execution role for workshop", 3600)
    IN PutRolePolicy(c, LAMBDA_EXECUTION_ROLE_NAME, ExecutionPolicyName,
                     LambdaExecutionPermissionsDoc)

WorkshopAccounts == {AccountAfterSetup, LegacyAccountAfterSetup}

InitWorkflow ==
    /\ aws \in WorkshopAccounts
    /\ script = "none"
    /\ pc = "exit"
    /\ status = 0
    /\ sh = InitSh
    /\ files = EmptyMap
    /\ out = {}
    /\ cmds = <<>>
    /\ prev = NoPrev
    /\ runs = 1
    /\ secrets = [AWS_ROLE_ARN |-> RoleArn(Account, WORKSHOP_ROLE_NAME),
                  LAMBDA_EXECUTION_ROLE_ARN |-> RoleArn(Account, LAMBDA_EXECUTION_ROLE_NAME)]
    /\ wf = <<>>
    /\ pushes = 0
    /\ lam = NoInvocation

NextWorkflow == PushAny \/ WorkflowStep

SpecWorkflow == InitWorkflow /\ [][NextWorkflow]_vars

(***************************************************************************)
(* SpecHandler: one invocation of the handler, for each event and context. *)
(***************************************************************************)
InitHandler ==
    /\ aws = AccountAfterSetup
    /\ script = "none"
    /\ pc = "exit"
    /\ status = 0
    /\ sh = InitSh
    /\ files = EmptyMap
    /\ out = {}
    /\ cmds = <<>>
    /\ prev = NoPrev
    /\ runs = 0
    /\ secrets = NoSecrets
    /\ wf = <<>>
    /\ pushes = 0
    /\ \E e \in Events, c \in Contexts : lam = [event |-> e, context |-> c, result |-> NoResult]

NextHandler == HandlerRuns

SpecHandler == InitHandler /\ [][NextHandler]_vars

(***************************************************************************)
(* SpecOptions: one run of a script, started with any argument list of up  *)
(* to MaxArgs words in any environment, on an empty account or one that    *)
(* holds what setup or an earlier edition left.  SpecOptionsFair adds that *)
(* the shell goes on with the parsing loop while it can.                   *)
(***************************************************************************)
Tokens == {"-p", "--profile", "-r", "--region", "us-east-1", "my profile", "-x"}
ArgLists == UNION { [1..n -> Tokens] : n \in 0..MaxArgs }
Scripts == WithOptions \cup CleanupScripts
Envs == {Env(TRUE, "eu-west-1"), Env(FALSE, "eu-west-1"), Env(FALSE, "eu-central-1")}

InitOptions ==
    /\ aws \in {EmptyAccount, LegacyAccount, AccountAfterSetup}
    /\ InitIdle

StartOptions ==
    /\ runs = 0
    /\ \E name \in Scripts, args \in ArgLists, env \in Envs :
        StartWith(name, args, env)

NextOptions == StartOptions \/ SetupStep \/ CleanupStep

SpecOptions == InitOptions /\ [][NextOptions]_vars

SpecOptionsFair == SpecOptions /\ WF_vars(SetupArgs \/ CleanupArgs)

(***************************************************************************)
(* SpecSimplified: the workshop after setup, with the workflow of Section 4 *)
(* and the simplified workflow of Section 6 pushed in any order, and        *)
(* cleanup run by the facilitator between or after the runs.                *)
(***************************************************************************)
NextSimplified ==
    \/ PushCode \/ PushSimplified \/ WorkflowStepSimplified
    \/ StartCleanup \/ CleanupStep

SpecSimplified == InitWorkflow /\ [][NextSimplified]_vars

(***************************************************************************)
(* SpecCleanup: the facilitator runs either cleanup script, with no        *)
(* argument, up to MaxRuns times in succession, on an account of an        *)
(* earlier edition or on one that holds workshop resources next to         *)
(* resources of other use.                                                 *)
(***************************************************************************)
AFunction(tags, url, actor) ==
    [tags |-> tags, url |-> url,
     perms |-> IF url THEN {"function-url-public-access"} ELSE {},
     code |-> 0, actor |-> actor, role |-> RoleArn(Account, "WorkshopLambdaRole"),
     desc |-> "", runtime |-> "nodejs20.x", handler |-> "index.handler",
     env |-> [GITHUB_ACTOR |-> actor]]

MixedAccount ==
    [account |-> Account,
     oidc |-> EmptyMap,
     roles |->
        Put(Put(EmptyMap, "WorkshopLambdaRole",
                Role(RoleArn(Account, "WorkshopLambdaRole"), LambdaTrustPolicyDoc, "legacy",
                     {}, 3600, Put(EmptyMap, "logs", LambdaExecutionPermissionsDoc),
                     {PolicyArn(Account, "S3ReadOnly")})),
            "ci-deployer",
            Role(RoleArn(Account, "ci-deployer"), ForeignTrustDoc, "legacy", {}, 3600,
                 Put(EmptyMap, "Extra", ForeignDoc),
                 {PolicyArn(Account, "workshop-lambda-deploy"), PolicyArn(Account, "S3ReadOnly")})),
     policies |->
        Put(Put(EmptyMap, PolicyArn(Account, "workshop-lambda-deploy"), "workshop-lambda-deploy"),
            PolicyArn(Account, "S3ReadOnly"), "S3ReadOnly"),
     functions |->
        Put(Put(Put(EmptyMap, "dave-workshop",
                    AFunction({WorkshopTag, [Key |-> "User", Value |-> "dave"]}, TRUE, "dave")),
                "erin-workshop",
                AFunction({WorkshopTag, [Key |-> "User", Value |-> "erin"]}, FALSE, "erin")),
            "billing-report",
            AFunction({[Key |-> "Workshop", Value |-> "Billing"]}, TRUE, "frank")),
     logGroups |-> {"/aws/lambda/workshop-lambda-dave", "/aws/lambda/billing-report",
                    "/ecs/workshop-lambda"}]

CleanupAccounts == {LegacyAccount, MixedAccount}

InitCleanup ==
    /\ aws \in CleanupAccounts
    /\ InitIdle

StartCleanupEither == \E name \in CleanupScripts : Start(name)

NextCleanup == StartCleanupEither \/ CleanupStep

SpecCleanup == InitCleanup /\ [][NextCleanup]_vars

(***************************************************************************)
(* SpecUrl: the workshop after setup, with the workflow that gives the     *)
(* function a Function URL and the workflow of the later revision pushed   *)
(* in any order.                                                           *)
(***************************************************************************)
NextUrl == PushCode \/ PushUrl \/ WorkflowStepUrl

SpecUrl == InitWorkflow /\ [][NextUrl]_vars

(***************************************************************************)
(* SpecEquiv: either cleanup script, started with no argument on the same  *)
(* accounts, by a caller who has exported AWS_PROFILE or has not.          *)
(***************************************************************************)
CallerEnvs == {Env(FALSE, "eu-west-1"), EnvProfile("work")}

StartEquiv ==
    /\ runs < MaxRuns
    /\ \E name \in CleanupScripts, env \in CallerEnvs : StartWith(name, <<>>, env)

NextEquiv == StartEquiv \/ CleanupStep

SpecEquiv == InitCleanup /\ [][NextEquiv]_vars

\* The states SpecWorkflow starts in are states Spec reaches.
WorkshopStart(a) ==
    /\ aws = a
    /\ WorkshopOn
    /\ wf = <<>>
    /\ pushes = 0
    /\ runs = 1
    /\ secrets = [AWS_ROLE_ARN |-> RoleArn(Account, WORKSHOP_ROLE_NAME),
                  LAMBDA_EXECUTION_ROLE_ARN |-> RoleArn(Account, LAMBDA_EXECUTION_ROLE_NAME)]
NoWorkshopStartFresh == ~WorkshopStart(AccountAfterSetup)
NoWorkshopStartLegacy == ~WorkshopStart(LegacyAccountAfterSetup)

(***************************************************************************)
(* Properties.                                                             *)
(***************************************************************************)
SetupSucceeded == script = "setup" /\ pc = "exit" /\ status = 0 /\ SetupComplete \in out
CleanupSucceeded == script = "cleanup" /\ pc = "exit" /\ status = 0 /\ AllRemoved \in out
IssuedOps == { cmds[i].op : i \in DOMAIN cmds }
Issued(op, a) == \E i \in DOMAIN cmds : cmds[i].op = op /\ cmds[i].a = a
Succeeded(op, a) == \E i \in DOMAIN cmds : cmds[i].op = op /\ cmds[i].a = a /\ cmds[i].rc = 0

\* This setup run succeeded, and so did the setup run right before it.
SecondSetupRun == SetupSucceeded /\ prev.script = "setup" /\ prev.status = 0

\* C1: setup is idempotent: when a setup run succeeds right after a successful setup
\* run, it leaves the IAM state (OIDC provider, roles, their inline policies) as the
\* first run left it, and it issues no create-open-id-connect-provider and no
\* create-role.
C1_SetupIdempotent ==
    SecondSetupRun =>
        /\ Iam(aws) = Iam(prev.aws)
        /\ IssuedOps \cap {"iam create-open-id-connect-provider", "iam create-role"} = {}

C1_Witness ==
    /\ SecondSetupRun
    /\ Succeeded("iam put-role-policy", WORKSHOP_ROLE_NAME)
    /\ Succeeded("iam put-role-policy", LAMBDA_EXECUTION_ROLE_NAME)

SetupDescriptions ==
    {"GitHub Actions role for Lambda workshop", "Lambda execution role for workshop"}

\* C3: whenever cleanup ends successfully, printing that all workshop-related resources
\* have been removed, nothing setup created is left: no role setup created, neither of
\* the inline policies setup wrote, and no GitHub OIDC provider.
C3_CleanupRemovesSetupResources ==
    CleanupSucceeded =>
        /\ \A n \in DOMAIN aws.roles :
              /\ aws.roles[n].desc \notin SetupDescriptions
              /\ DOMAIN aws.roles[n].inline \cap {WorkshopPolicyName, ExecutionPolicyName} = {}
        /\ DOMAIN aws.oidc = {}

\* The functions carrying the tag Workshop=GitHubActions in account a.
Tagged(a) == { f \in DOMAIN a.functions : WorkshopTag \in a.functions[f].tags }

\* C4: whenever cleanup ends successfully, no function tagged Workshop=GitHubActions
\* exists, none of the functions so tagged when cleanup started has a Function URL
\* configuration, and delete-function was issued for each of them and succeeded.
C4_CleanupRemovesTaggedFunctions ==
    CleanupSucceeded =>
        /\ Tagged(aws) = {}
        /\ \A f \in Tagged(prev.aws) :
              /\ ~HasUrlConfig(aws, f)
              /\ Succeeded("lambda delete-function", f)
        /\ \A k \in DOMAIN sh.FUNCTIONS : Succeeded("lambda delete-function", sh.FUNCTIONS[k])

\* Cleanup succeeded on an account with a tagged function that had a Function URL.
C4_Witness ==
    /\ CleanupSucceeded
    /\ \E f \in Tagged(prev.aws) :
          /\ HasUrlConfig(prev.aws, f)
          /\ Succeeded("lambda delete-function-url-config", f)

\* The functions of account a that a workflow run deployed.
Deployed(a) == { f \in DOMAIN a.functions : a.functions[f].code > 0 }

\* C5: whenever cleanup ends successfully, no log group /aws/lambda/<function name> of
\* a function that the workflow had deployed when cleanup started is left.
C5_CleanupRemovesLogGroups ==
    CleanupSucceeded =>
        \A f \in Deployed(prev.aws) : ("/aws/lambda/" \o f) \notin aws.logGroups

Did(r, op) == \E c \in r.calls : c.op = op

\* C7: in every workflow run exactly one of the steps Create Lambda function and Update
\* Lambda function code runs once the run has passed them: create-function is issued if
\* and only if the check wrote exists=false, update-function-code if and only if it
\* wrote exists=true, never both and never neither.
C7_CreateXorUpdate ==
    \A i \in DOMAIN wf :
        LET r == wf[i]
            created == Did(r, "create-function")
            updated == Did(r, "update-function-code")
        IN /\ ~(created /\ updated)
           /\ created => r.exists = "false" /\ Did(r, "get-function")
           /\ updated => r.exists = "true" /\ Did(r, "get-function")
           /\ r.pc \in {"update", "test", "success"} /\ r.exists = "false" => created
           /\ r.pc \in {"test", "success"} /\ r.exists = "true" => updated
           /\ r.pc \in {"test", "success"} => created \/ updated

\* One run created the function and a later run of the same branch updated it.
C7_Witness ==
    \E i, j \in DOMAIN wf :
        /\ i < j
        /\ wf[i].branch = wf[j].branch
        /\ wf[i].pc \in {"test", "success", "failed"} /\ Did(wf[i], "create-function")
        /\ wf[j].pc \in {"test", "success", "failed"} /\ Did(wf[j], "update-function-code")

\* C8: a run for branch b calls AWS only for the function named b, the function a run
\* wrote is the one named after its branch, and runs of two distinct branches share no
\* function among their calls.
C8_BranchIsolation ==
    /\ \A i \in DOMAIN wf : \A c \in wf[i].calls : c.fn = wf[i].branch
    /\ \A f \in DOMAIN aws.functions :
          aws.functions[f].code \in DOMAIN wf => f = wf[aws.functions[f].code].branch
    /\ \A i, j \in DOMAIN wf :
          wf[i].branch # wf[j].branch
              => { c.fn : c \in wf[i].calls } \cap { c.fn : c \in wf[j].calls } = {}

\* Runs of two branches are in progress together and both have deployed.
C8_Witness ==
    \E i, j \in DOMAIN wf :
        /\ wf[i].branch # wf[j].branch
        /\ wf[i].pc = "test" /\ wf[j].pc = "test"
        /\ wf[i].branch \in DOMAIN aws.functions
        /\ wf[j].branch \in DOMAIN aws.functions
        /\ aws.functions[wf[i].branch].code = i
        /\ aws.functions[wf[j].branch].code = j

\* Among the branches and the change sets pushed, the ones the trigger lets through.
WorkshopBranches == {"alice-workshop", "bob-workshop"}
DeployChanges == { {".github/workflows/deploy-lambda.yaml"}, {"lambda/src/index.ts"} }

\* C9: a run exists only for a push to a branch matching *-workshop that changed a file
\* under .github/ or lambda/; no other push starts a run, and every function the
\* workflow wrote belongs to such a run.
C9_TriggerFilter ==
    /\ Len(wf) <= pushes
    /\ \A i \in DOMAIN wf :
          /\ wf[i].branch \in WorkshopBranches
          /\ wf[i].changed \in DeployChanges
    /\ \A f \in DOMAIN aws.functions :
          aws.functions[f].code > 0 => aws.functions[f].code \in DOMAIN wf

\* Of two pushes one started a run, which called AWS, and the other started none.
C9_Witness ==
    /\ pushes = 2
    /\ Len(wf) = 1
    /\ wf[1].calls # {}

\* The script stopped at command i: it is the last command, the exit status is not
\* zero, and no completion message was printed.
AbortedAt(i) ==
    /\ i = Len(cmds)
    /\ pc = "exit"
    /\ status # 0
    /\ SetupComplete \notin out
    /\ AllRemoved \notin out

\* C10 as stated: every failing command that is not the condition of an `if` aborts
\* the script.
C10_AnyFailureAborts ==
    \A i \in DOMAIN cmds : cmds[i].rc # 0 /\ cmds[i].ctx # "if" => AbortedAt(i)

\* C10: with set -e, every failing command that is neither the condition of an `if`
\* nor followed by `|| true` ends the script at once: non-zero status, no later
\* command, no completion message.
C10_PlainFailureAborts ==
    \A i \in DOMAIN cmds :
        cmds[i].rc # 0 /\ cmds[i].ctx \notin {"if", "ortrue"} => AbortedAt(i)

\* A cleanup run went on after a failed URL removal and then stopped at a failing
\* delete-function.
C10_Witness ==
    /\ script = "cleanup"
    /\ Len(cmds) > 1
    /\ cmds[Len(cmds)].op = "lambda delete-function"
    /\ cmds[Len(cmds)].rc # 0
    /\ cmds[Len(cmds) - 1].op = "lambda delete-function-url-config"
    /\ cmds[Len(cmds) - 1].rc # 0
    /\ AbortedAt(Len(cmds))

\* Where an existence check leads: the line the script goes to and the command it
\* issues next, when the resource is reported present and when it is not.
Leads(line, op) == [pc |-> line, op |-> op]
Present(c) ==
    IF c.op = "iam get-open-id-connect-provider" THEN Leads("cat_trust", "cat")
    ELSE IF c.op = "iam get-role" /\ c.a = WORKSHOP_ROLE_NAME
    THEN Leads("gh_put", "iam put-role-policy")
    ELSE IF c.op = "iam get-role" THEN Leads("ex_put", "iam put-role-policy")
    ELSE Leads("url_del", "lambda delete-function-url-config")
Absent(c) ==
    IF c.op = "iam get-open-id-connect-provider"
    THEN Leads("oidc_create", "iam create-open-id-connect-provider")
    ELSE IF c.op = "iam get-role" /\ c.a = WORKSHOP_ROLE_NAME
    THEN Leads("gh_create", "iam create-role")
    ELSE IF c.op = "iam get-role" THEN Leads("ex_create", "iam create-role")
    ELSE Leads("fn_del", "lambda delete-function")

\* C11: a failing existence check never ends a script or a workflow step. After
\* get-open-id-connect-provider, get-role or get-function-url-config as an `if`
\* condition the script is at, and next issues the command of, the branch for an absent
\* resource when the check failed and the branch for a present one when it succeeded;
\* a run that has issued get-function has exists=true (and then the function exists) or
\* exists=false, and has not failed at that step.
C11_CheckNeverAborts ==
    /\ \A i \in DOMAIN cmds :
          cmds[i].ctx = "if" =>
              LET want == IF cmds[i].rc = 0 THEN Present(cmds[i]) ELSE Absent(cmds[i])
              IN IF i = Len(cmds) THEN pc = want.pc ELSE cmds[i + 1].op = want.op
    /\ \A i \in DOMAIN wf :
          Did(wf[i], "get-function") =>
              /\ wf[i].exists \in {"true", "false"}
              /\ wf[i].exists = "true" => wf[i].branch \in DOMAIN aws.functions
              /\ wf[i].pc = "failed" =>
                    Did(wf[i], "create-function") \/ Did(wf[i], "update-function-code")

\* Setup's provider check succeeded, and its get-role failed although the role exists:
\* the script went on to create-role.
C11_Witness ==
    /\ script = "setup"
    /\ \E i \in DOMAIN cmds :
          /\ i < Len(cmds)
          /\ cmds[i].op = "iam get-role" /\ cmds[i].rc # 0
          /\ HasRole(aws, cmds[i].a)
          /\ cmds[i + 1].op = "iam create-role"
          /\ \E j \in DOMAIN cmds : cmds[j].op = "iam get-open-id-connect-provider"
                                    /\ cmds[j].rc = 0

\* The IAM actions a workflow step's AWS CLI command needs on the role of the run.
Requires(op) ==
    IF op = "get-function" THEN {"lambda:GetFunction"}
    ELSE IF op = "create-function"
    THEN {"lambda:CreateFunction", "iam:PassRole", "lambda:TagResource"}
    ELSE IF op = "update-function-code" THEN {"lambda:UpdateFunctionCode"}
    ELSE IF op = "invoke" THEN {"lambda:InvokeFunction"}
    ELSE IF op = "get-function-configuration" THEN {"lambda:GetFunctionConfiguration"}
    ELSE IF op = "get-function-url-config" THEN {"lambda:GetFunctionUrlConfig"}
    ELSE IF op = "create-function-url-config" THEN {"lambda:CreateFunctionUrlConfig"}
    ELSE IF op = "add-permission" THEN {"lambda:AddPermission"}
    ELSE {}

\* C12: the role of a run is allowed every action of every command the run's steps
\* issue, so no step is denied for lack of permission.
C12_PolicyCoversWorkflow ==
    \A i \in DOMAIN wf :
        \A c \in wf[i].calls :
            \A act \in Requires(c.op) : Allowed(aws, wf[i].role, act)

\* What JSON keeps of a value: everything but the members that are undefined or
\* functions.
RECURSIVE Data(_), DataAll(_), DataMembers(_)
Data(j) ==
    IF j.t = "arr" THEN Arr(DataAll(j.xs))
    ELSE IF j.t = "obj" THEN Obj(DataMembers(SelectSeq(j.ms, LAMBDA m : Serializable(m.v))))
    ELSE IF Serializable(j) THEN j ELSE JNull
DataAll(xs) == IF xs = <<>> THEN <<>> ELSE <<Data(xs[1])>> \o DataAll(Tail(xs))
DataMembers(ms) ==
    IF ms = <<>> THEN <<>>
    ELSE <<Member(ms[1].k, Data(ms[1].v))>> \o DataMembers(Tail(ms))

\* C13: for every event and context the handler's result has statusCode 200, and its
\* body is JSON text which, parsed, is the object {event, context}: the event as it was
\* given, and the context with its data members.
C13_HandlerEchoes ==
    lam.result # NoResult =>
        /\ lam.result.statusCode = 200
        /\ JSONparse(lam.result.body)
              = Obj(<<Member("event", lam.event), Member("context", Data(lam.context))>>)

\* The handler has run on an event holding a string with quotes.
C13_Witness ==
    /\ lam.result # NoResult
    /\ lam.event = Obj(<<Member("body", Str("{\"x\":1}")),
                         Member("isBase64Encoded", Bool(FALSE))>>)
    /\ lam.result.body # ""

\* Principals that may try: runs of this repository (a branch, a pull request), runs of
\* other repositories, tokens of another issuer, a token for another audience, an AWS
\* service, an IAM user of the account.
ThisRepo == "repo:daemon-labs-io/github-actions-aws-lambda:"
Principals ==
    { Web(OidcHost, "sts.amazonaws.com", ThisRepo \o "ref:refs/heads/alice-workshop"),
      Web(OidcHost, "sts.amazonaws.com", ThisRepo \o "pull_request"),
      Web(OidcHost, "sts.amazonaws.com",
          "repo:daemon-labs-io/github-actions-aws-lambda-fork:ref:refs/heads/main"),
      Web(OidcHost, "sts.amazonaws.com",
          "repo:mallory/github-actions-aws-lambda:ref:refs/heads/alice-workshop"),
      Web(OidcHost, "sigstore", ThisRepo \o "ref:refs/heads/main"),
      Web("accounts.google.com", "sts.amazonaws.com", ThisRepo \o "ref:refs/heads/main"),
      AwsPrincipal("ec2.amazonaws.com"),
      AwsPrincipal("lambda.amazonaws.com"),
      AwsPrincipal("arn:aws:iam::" \o Account \o ":user/facilitator") }
Entitled(p) == p.kind = "web" /\ p.issuer = OidcHost /\ StringLike(p.sub, RepoSubject)

\* Commands that hand out long-lived credentials.
SecretOps ==
    {"iam create-user", "iam create-access-key", "iam create-login-profile",
     "iam create-service-specific-credential"}
NoLongLivedSecret ==
    /\ IssuedOps \cap SecretOps = {}
    /\ \A line \in out : ~Contains(line, "SecretAccessKey") /\ ~Contains(line, "AKIA")

\* C14 as stated: after a successful setup only a GitHub token whose subject matches
\* repo:daemon-labs-io/github-actions-aws-lambda:* can assume the GitHub Actions role,
\* and setup neither creates nor prints a long-lived secret.  It fails on an account
\* where the role existed with another trust policy, which setup leaves in place.
C14_OnlyGitHubOidc ==
    SetupSucceeded =>
        /\ \A p \in Principals : CanAssume(aws, WORKSHOP_ROLE_NAME, p) => Entitled(p)
        /\ NoLongLivedSecret

\* C14, amended: the same for the GitHub Actions role that the setup run created.
C14_CreatedRoleOnlyGitHubOidc ==
    (script = "setup" /\ Succeeded("iam create-role", WORKSHOP_ROLE_NAME)) =>
        /\ \A p \in Principals : CanAssume(aws, WORKSHOP_ROLE_NAME, p) => Entitled(p)
        /\ NoLongLivedSecret

\* Setup created the role and succeeded; a run of this repository can assume it, a run
\* of another repository cannot.
C14_Witness ==
    /\ SetupSucceeded
    /\ Succeeded("iam create-role", WORKSHOP_ROLE_NAME)
    /\ \E p \in Principals : CanAssume(aws, WORKSHOP_ROLE_NAME, p)
    /\ \E p \in Principals : p.kind = "web" /\ p.aud = "sts.amazonaws.com"
                             /\ p.issuer = OidcHost
                             /\ ~CanAssume(aws, WORKSHOP_ROLE_NAME, p)

\* C15: at any time at most one run of a branch is in progress; a run is cancelled only
\* by a push to its own branch, which starts the run that replaces it; a cancelled run
\* stays as it is, so it calls AWS no more.
C15_OneRunPerBranch ==
    /\ [](\A i, j \in DOMAIN wf :
            (i # j /\ InProgress(wf[i]) /\ InProgress(wf[j])) => wf[i].branch # wf[j].branch)
    /\ [][\A i \in DOMAIN wf \cap DOMAIN wf' :
            /\ wf[i].pc = "cancelled" => wf'[i] = wf[i]
            /\ (wf[i].pc # "cancelled" /\ wf'[i].pc = "cancelled") =>
                  /\ InProgress(wf[i])
                  /\ wf'[i].calls = wf[i].calls
                  /\ aws' = aws
                  /\ Len(wf') = Len(wf) + 1
                  /\ wf'[Len(wf')].branch = wf[i].branch
                  /\ \A j \in DOMAIN wf :
                        wf[j].branch # wf[i].branch => wf'[j] = wf[j]]_vars

\* A run that had called AWS was cancelled by a push to its branch, and the run that
\* replaced it went through.
C15_Witness ==
    \E i, j \in DOMAIN wf :
        /\ i < j
        /\ wf[i].branch = wf[j].branch
        /\ wf[i].pc = "cancelled" /\ wf[i].calls # {}
        /\ wf[j].pc = "success"

\* The commands of the regional services.
IsRegional(op) == HasPrefix(op, "lambda ") \/ HasPrefix(op, "logs ")

\* C16: every command of a regional service that a script issues operates in the region
\* the script printed as "Region:", which is the value of -r/--region or eu-west-1.
C16_RegionOption ==
    \A i \in DOMAIN cmds :
        IsRegional(cmds[i].op) => ("Region: " \o cmds[i].region) \in out

\* C17: in the scripts with options every AWS CLI command is run as
\* aws --profile P <args> when a profile P was given, and as aws <args> when none was.
C17_ProfileUniform ==
    \A i \in DOMAIN cmds :
        (script \in WithOptions /\ IsAws(cmds[i].op)) =>
            cmds[i].argv =
                (IF sh.AWS_PROFILE # "" THEN <<"aws", "--profile", sh.AWS_PROFILE>>
                 ELSE <<"aws">>) \o ArgsOf(cmds[i].op, cmds[i].a, cmds[i].b)

\* C18: argument parsing ends, whatever the argument list; no command is issued while
\* it lasts; an argument in option position that is none of -p, --profile, -r, --region
\* ends the script with the usage line and status 1, no command issued.
Flags == {"-p", "--profile", "-r", "--region"}
C18_ParsingTerminates ==
    /\ (pc = "args") ~> (pc # "args")
    /\ [](pc = "args" => cmds = <<>>)
    /\ []((script \in WithOptions /\ Usage \in out) =>
            (pc = "exit" /\ status = 1 /\ cmds = <<>>))
    /\ [][(script \in WithOptions /\ pc = "args" /\ sh.args # <<>> /\ sh.args[1] \notin Flags)
            => (Usage \in out' /\ pc' = "exit" /\ status' = 1)]_vars

\* A script was started with -p or -r as its last argument and no value: it has ended
\* with status 1, without the usage line.
C18_Witness ==
    /\ script \in WithOptions
    /\ pc = "exit" /\ status = 1
    /\ Len(sh.args) = 1 /\ sh.args[1] \in Flags
    /\ Usage \notin out /\ cmds = <<>>

\* C19: of a role that existed when setup was started, a setup run changes nothing but
\* the inline policy it puts: trust policy, description, tags, session duration, ARN,
\* attached policies and the other inline policies stay as they were.
SetupPolicyOf(n) == IF n = WORKSHOP_ROLE_NAME THEN WorkshopPolicyName ELSE ExecutionPolicyName
C19_ExistingRoleKeepsAttributes ==
    script = "setup" =>
        \A n \in {WORKSHOP_ROLE_NAME, LAMBDA_EXECUTION_ROLE_NAME} \cap DOMAIN prev.aws.roles :
            /\ n \in DOMAIN aws.roles
            /\ LET r == aws.roles[n]
                   o == prev.aws.roles[n]
               IN /\ r.trust = o.trust /\ r.desc = o.desc /\ r.tags = o.tags
                  /\ r.maxdur = o.maxdur /\ r.arn = o.arn /\ r.attached = o.attached
                  /\ DOMAIN o.inline \subseteq DOMAIN r.inline
                  /\ DOMAIN r.inline \subseteq DOMAIN o.inline \cup {SetupPolicyOf(n)}
                  /\ \A pn \in DOMAIN o.inline \ {SetupPolicyOf(n)} : r.inline[pn] = o.inline[pn]

\* Setup succeeded on an account where both roles existed with somebody else's trust
\* policy: the policies were put, the trust policies are as before.
C19_Witness ==
    /\ SetupSucceeded
    /\ \A n \in {WORKSHOP_ROLE_NAME, LAMBDA_EXECUTION_ROLE_NAME} :
        /\ n \in DOMAIN prev.aws.roles
        /\ prev.aws.roles[n].trust = ForeignTrustDoc
        /\ aws.roles[n].trust = ForeignTrustDoc
        /\ aws.roles[n].inline # prev.aws.roles[n].inline

StepOrder ==
    <<"checkout", "creds", "node", "npm_ci", "build", "package", "check", "create",
      "update", "test">>
Pos(step) == CHOOSE k \in DOMAIN StepOrder : StepOrder[k] = step
Passed(r) == { r.done[k] : k \in DOMAIN r.done }

\* C21: within a run the steps succeed in the order of the workflow file; a run issues
\* create-function or update-function-code only after its checkout, credentials, npm ci,
\* build and package steps succeeded, and invokes the function only after its create or
\* update step succeeded; a run that failed before its package step had succeeded has
\* issued neither command, and no function holds code that such a run deployed.
C21_StepsOrderedAndGated ==
    /\ \A i \in DOMAIN wf :
        LET r == wf[i]
        IN /\ \A k \in DOMAIN r.done : r.done[k] \in { StepOrder[m] : m \in DOMAIN StepOrder }
           /\ \A k \in 1..(Len(r.done) - 1) : Pos(r.done[k]) < Pos(r.done[k + 1])
           /\ (Did(r, "create-function") \/ Did(r, "update-function-code")) =>
                 {"checkout", "creds", "npm_ci", "build", "package"} \subseteq Passed(r)
           /\ Did(r, "invoke") => ("create" \in Passed(r) \/ "update" \in Passed(r))
           /\ (r.pc = "failed" /\ ~({"build", "package"} \subseteq Passed(r))) =>
                 r.calls = {}
    /\ \A f \in DOMAIN aws.functions :
          aws.functions[f].code \in DOMAIN wf =>
              LET r == wf[aws.functions[f].code]
              IN /\ {"build", "package"} \subseteq Passed(r)
                 /\ "create" \in Passed(r) \/ "update" \in Passed(r)

\* One run failed at its build step, after the function was deployed by an earlier run
\* that created and invoked it: the function still holds the code of the earlier run.
C21_Witness ==
    \E i, j \in DOMAIN wf :
        /\ i < j
        /\ wf[i].branch = wf[j].branch
        /\ "create" \in Passed(wf[i]) /\ Did(wf[i], "invoke")
        /\ wf[j].pc = "failed" /\ wf[j].done = <<"checkout", "creds", "node", "npm_ci">>
        /\ wf[i].branch \in DOMAIN aws.functions
        /\ aws.functions[wf[i].branch].code = i

\* The phase a command of cleanup belongs to: 1 functions, 2 roles, 3 policies, 4 log
\* groups; each phase starts with its list command.
PhaseLists ==
    {"lambda list-functions", "iam list-roles", "iam list-policies", "logs describe-log-groups"}
PhaseOf(i) == Cardinality({ j \in 1..i : cmds[j].op \in PhaseLists })

\* The delete and detach commands of cleanup other than the URL removal.
Destructive ==
    {"lambda delete-function", "iam detach-role-policy", "iam delete-role-policy",
     "iam delete-role", "iam delete-policy", "logs delete-log-group"}

\* C22: in cleanup a failing delete-function-url-config does not end the script, and the
\* next command is delete-function for the same function; a failing delete-function,
\* detach-role-policy, delete-role-policy, delete-role, delete-policy or
\* delete-log-group ends it at once, with the functions still on the list and the
\* resources of all later phases as they were when the script started.
C22_OnlyUrlRemovalFailureIgnored ==
    IsCleanup =>
        \A i \in DOMAIN cmds :
            /\ (cmds[i].op = "lambda delete-function-url-config" /\ cmds[i].rc # 0) =>
                  IF i = Len(cmds) THEN pc = "fn_del" /\ status = 0
                  ELSE /\ cmds[i + 1].op = "lambda delete-function"
                       /\ cmds[i + 1].a = cmds[i].a
            /\ (cmds[i].op \in Destructive /\ cmds[i].rc # 0) =>
                  /\ AbortedAt(i)
                  /\ PhaseOf(i) = 1 =>
                        \A k \in DOMAIN sh.outer :
                            /\ sh.outer[k] \in DOMAIN aws.functions
                            /\ aws.functions[sh.outer[k]] = prev.aws.functions[sh.outer[k]]
                  /\ PhaseOf(i) <= 1 => aws.roles = prev.aws.roles
                  /\ PhaseOf(i) <= 2 => aws.policies = prev.aws.policies
                  /\ PhaseOf(i) <= 3 => aws.logGroups = prev.aws.logGroups

\* A cleanup run printed its completion message although the URL removal of a function
\* had failed: the function was deleted all the same.
C22_Witness ==
    /\ IsCleanup /\ pc = "exit" /\ status = 0 /\ AllRemoved \in out
    /\ \E i \in DOMAIN cmds :
          /\ cmds[i].op = "lambda delete-function-url-config" /\ cmds[i].rc # 0
          /\ cmds[i + 1].op = "lambda delete-function" /\ cmds[i + 1].rc = 0
          /\ cmds[i + 1].a = cmds[i].a

\* C23: with the Function URL steps, every run that has completed successfully leaves
\* its function with a Function URL configuration and with the statement
\* function-url-public-access in its policy.  It fails after a run that created the URL
\* configuration and ended (failed or cancelled) before add-permission: the next run
\* finds the URL, skips the step that would add the permission, and succeeds.
C23_UrlWithPublicAccess ==
    \A i \in DOMAIN wf :
        (wf[i].deploy = "url" /\ wf[i].pc = "success") =>
            /\ HasUrlConfig(aws, wf[i].branch)
            /\ PublicAccess \in aws.functions[wf[i].branch].perms

\* Run i issues the command op in this step.
Issues(i, op) == ~Did(wf[i], op) /\ Did(wf'[i], op)

\* C24: whenever a run issues create-function its function does not exist, and whenever
\* a run issues update-function-code its function exists, for runs of the same branch
\* in succession or overlapping.  It fails when get-function fails for another reason
\* than the absence of the function: the run writes exists=false all the same.
C24_CheckThenActRaceFree ==
    [][\A i \in DOMAIN wf :
          /\ Issues(i, "create-function") => ~HasFunction(aws, wf[i].branch)
          /\ Issues(i, "update-function-code") => HasFunction(aws, wf[i].branch)]_vars

\* The settings of a function that create-function gives and update-function-code
\* does not name.
Settings(fun) ==
    [runtime |-> fun.runtime, handler |-> fun.handler, role |-> fun.role, desc |-> fun.desc,
     env |-> fun.env, tags |-> fun.tags]
SettingsOf(run) ==
    [runtime |-> "nodejs24.x", handler |-> "build/index.handler",
     role |-> secrets.LAMBDA_EXECUTION_ROLE_ARN,
     desc |-> "Workshop Lambda deployed by " \o run.actor,
     env |-> [GITHUB_ACTOR |-> run.actor],
     tags |-> {WorkshopTag, [Key |-> "User", Value |-> run.actor]}]

SecondCleanupRun == IsCleanup /\ prev.script \in CleanupScripts /\ prev.status = 0

NoneFound ==
    {"No workshop Lambda functions found", "No Lambda execution roles found",
     "No workshop policies found", "No workshop log groups found"}

\* C26: a cleanup run started right after a successful cleanup run issues no delete and
\* no detach command; each of its four list commands that succeeds is followed by the
\* "No ... found" line of its phase; and it ends with status 0 and the completion
\* message, unless the AWS CLI is missing or a command of its own (sts, a list) fails.
C26_CleanupIdempotent ==
    SecondCleanupRun =>
        /\ IssuedOps \cap (Destructive \cup {"lambda delete-function-url-config",
                                             "lambda get-function-url-config"}) = {}
        /\ aws = prev.aws
        /\ Succeeded("lambda list-functions", "") => "No workshop Lambda functions found" \in out
        /\ Succeeded("iam list-roles", "") => "No Lambda execution roles found" \in out
        /\ Succeeded("iam list-policies", "") => "No workshop policies found" \in out
        /\ Succeeded("logs describe-log-groups", "") => "No workshop log groups found" \in out
        /\ pc = "exit" =>
              \/ status = 0 /\ NoneFound \subseteq out /\ AllRemoved \in out /\ Len(cmds) = 5
              \/ status # 0 /\ cmds = <<>> /\ "AWS CLI is not installed" \in out
              \/ status # 0 /\ cmds # <<>> /\ cmds[Len(cmds)].rc # 0

\* The second of two cleanup runs succeeded, the first by the script with options and
\* the second by the other, on an account where the first had resources to remove (it
\* left the roles and functions its queries pass over).
C26_Witness ==
    /\ SecondCleanupRun
    /\ prev.script = "cleanup-opts" /\ script = "cleanup"
    /\ pc = "exit" /\ status = 0 /\ NoneFound \subseteq out
    /\ "ci-deployer" \in DOMAIN aws.roles
    /\ "billing-report" \in DOMAIN aws.functions
    /\ Tagged(aws) = {}

\* What the four queries of cleanup pass over, by the words of the queries.
NotTagged(fun) == [Key |-> "Workshop", Value |-> "GitHubActions"] \notin fun.tags
OtherRoleName(n) == ~Contains(n, "workshop-lambda") /\ ~Contains(n, "WorkshopLambda")
OtherPolicyName(n) == ~Contains(n, "LambdaWorkshop") /\ ~Contains(n, "workshop-lambda")
OtherLogGroup(g) == ~HasPrefix(g, "/aws/lambda/") \/ ~Contains(g, "workshop-lambda")

\* Functions, policies and log groups that the queries pass over are as they were when
\* the script started.
OthersKept ==
    /\ \A f \in DOMAIN prev.aws.functions :
          NotTagged(prev.aws.functions[f]) =>
              f \in DOMAIN aws.functions /\ aws.functions[f] = prev.aws.functions[f]
    /\ \A p \in DOMAIN prev.aws.policies :
          OtherPolicyName(prev.aws.policies[p]) =>
              p \in DOMAIN aws.policies /\ aws.policies[p] = prev.aws.policies[p]
    /\ \A g \in prev.aws.logGroups : OtherLogGroup(g) => g \in aws.logGroups

\* C27 as stated: during and after any cleanup run every function without the tag, every
\* role and policy with another name and every other log group is as it was when the
\* run started.  It fails for a role of another name to which a policy that cleanup
\* selects is attached: the policies phase detaches the policy from it.
C27_TouchesOnlySelected ==
    IsCleanup =>
        /\ OthersKept
        /\ \A n \in DOMAIN prev.aws.roles :
              OtherRoleName(n) => n \in DOMAIN aws.roles /\ aws.roles[n] = prev.aws.roles[n]

\* C27, amended: the same, except that a role of another name may have lost the
\* attachment of customer-managed policies that the policies query selects; the role
\* is not deleted and everything else of it is as it was.
C27_TouchesOnlySelectedOrDetaches ==
    IsCleanup =>
        /\ OthersKept
        /\ \A n \in DOMAIN prev.aws.roles :
              OtherRoleName(n) =>
                  /\ n \in DOMAIN aws.roles
                  /\ [aws.roles[n] EXCEPT !.attached = {}]
                        = [prev.aws.roles[n] EXCEPT !.attached = {}]
                  /\ aws.roles[n].attached \subseteq prev.aws.roles[n].attached
                  /\ \A p \in prev.aws.roles[n].attached \ aws.roles[n].attached :
                        /\ p \in DOMAIN prev.aws.policies
                        /\ ~OtherPolicyName(prev.aws.policies[p])

\* A cleanup run succeeded on the mixed account: the function without the tag keeps its
\* Function URL, the log group outside /aws/lambda/ and the policy of another name are
\* there, and the role ci-deployer has lost the workshop's policy and nothing else.
C27_Witness ==
    /\ IsCleanup /\ pc = "exit" /\ status = 0 /\ AllRemoved \in out
    /\ Succeeded("lambda delete-function", "dave-workshop")
    /\ HasUrlConfig(aws, "billing-report")
    /\ "/ecs/workshop-lambda" \in aws.logGroups
    /\ PolicyArn(Account, "S3ReadOnly") \in DOMAIN aws.policies
    /\ "ci-deployer" \in DOMAIN aws.roles
    /\ aws.roles["ci-deployer"].attached = {PolicyArn(Account, "S3ReadOnly")}
    /\ prev.aws.roles["ci-deployer"].attached
          = {PolicyArn(Account, "workshop-lambda-deploy"), PolicyArn(Account, "S3ReadOnly")}

\* C28: started with no argument, the cleanup script with options runs every AWS CLI
\* command as the script in _facilitator/ runs it: the same words, for the same region
\* and under the same profile, hence with the same effect on the same account and the
\* same exit status.  It fails when the caller has exported AWS_PROFILE: the script with
\* options empties the variable, the other script leaves it.
C28_SameCommandsAsPlainScript ==
    (script = "cleanup-opts" /\ sh.AWS_PROFILE = "") =>
        \A i \in DOMAIN cmds :
            IsAws(cmds[i].op) =>
                /\ cmds[i].argv = Argv("cleanup", sh, cmds[i].op, cmds[i].a, cmds[i].b)
                /\ cmds[i].region = EffectiveRegion(sh)
                /\ cmds[i].profile = CliProfile("cleanup", sh)

====
